---- MODULE Spec2Model ----
(***************************************************************************)
(* Verification model of the storage and execution core of                 *)
(* zhiyiYo/cmu15445-fall2020: the lock manager with its deadlock detector, *)
(* the buffer pool manager with its LRU replacer, and the B+tree index.    *)
(***************************************************************************)
EXTENDS Integers, Sequences, FiniteSets, TLC

(***************************************************************************)
(* Bounds of the model.                                                    *)
(***************************************************************************)
NumTxns == 2            \* transactions that issue calls in the two-transaction histories
NumRids == 2            \* rids they lock
MaxTxns == 3            \* transactions of the transaction manager's map
MaxRids == 3            \* rids of the lock table
MaxLocks == 3           \* rows a transaction locks in the detector's histories
PoolSize == 2          \* frames of the buffer pool under test
MaxPages == 3          \* page ids the disk manager hands out: 0 .. MaxPages - 1
MaxPin == 2            \* FetchPage is not called on a page pinned MaxPin times
MaxData == 1           \* page contents written by clients: 1 .. MaxData (0 is a zeroed page)
MaxWritten == 2        \* page contents written by the clients that unpin what they wrote as dirty
MaxClientPin == 1      \* pins those clients hold on one page at a time
LeafMaxSize == 3       \* leaf_max_size of the tree under test
InternalMaxSize == 4   \* internal_max_size of the tree under test
MaxKey == 6            \* keys of the tree: 1 .. MaxKey
TreeMaxPages == 10     \* the tree's operations stop once this many page ids are allocated
MaxCalls == 7          \* calls of the tree's operations in one history
MaxValue == 2          \* values stored under a key where the value matters: 1 .. MaxValue
MaxMapKey == 4         \* keys of the histories in which the value matters: 1 .. MaxMapKey
MaxOomPool == 3        \* frames of the pools that run out of frames: 1 .. MaxOomPool
LruCapacity == 3       \* num_pages of the replacer under test
LruFrames == 4         \* frame ids its callers pass: 0 .. LruFrames - 1
MaxTuple == 1          \* values of the column a heap tuple holds: 0 .. MaxTuple
MaxRows == 3           \* tuples the child of an aggregation produces: 0 .. MaxRows
MaxGroup == 2          \* values of the group-by column: 1 .. MaxGroup
MaxAggValue == 2       \* values of the aggregated column: 1 .. MaxAggValue
MaxInits == 2          \* calls of Init() on one executor
MaxSchema == 2         \* schemas handed to the catalog: 1 .. MaxSchema

Txns == 1..NumTxns
Rids == 1..NumRids
AllTxns == 1..MaxTxns
AllRids == 1..MaxRids
NoRid == 0

IsolationLevels == {"READ_UNCOMMITTED", "READ_COMMITTED", "REPEATABLE_READ"}

VARIABLES
  lock_table,          \* rid -> LockRequestQueue {request_queue_, reader_count_, writer_enter_, upgrading_}
  txn_state,           \* txn -> TransactionState
  isolation,           \* txn -> IsolationLevel
  shared_lock_set,     \* txn -> set of rids
  exclusive_lock_set,  \* txn -> set of rids
  call,                \* txn -> the lock call its thread is in: [op, rid]
  woken,               \* txn -> its condition variable was notified since it went to sleep
  abort_reason,        \* txn -> reason of the last TransactionAbortException it raised
  has_unlocked         \* txn -> Unlock has released a lock of this transaction (history)

lm_vars == <<lock_table, txn_state, isolation, shared_lock_set, exclusive_lock_set,
             call, woken, abort_reason, has_unlocked>>

VARIABLES
  bpm,                 \* BufferPoolManager: pages_, free_list_, page_table_, replacer_, disk_manager_
  last_op              \* the last buffer pool call: its arguments, result and disk writes (history)

bpm_vars == <<bpm, last_op>>

VARIABLES
  tree,                \* BPlusTree: root_page_id_, root_latch_, the latches and page sets of the
                       \* caller, and the caller's IndexIterator
  tree_op,             \* the last tree call: its arguments, result and latch discipline (history)
  contents,            \* the map the calls so far define: key -> value (history)
  insert_order         \* the stored keys in the order of their Insert, kept by the
                       \* histories that remove in the reverse order (history)

tree_vars == <<tree, tree_op, contents, insert_order>>

VARIABLES
  scan                 \* txn -> position of its SeqScanExecutor::Next: [pc, rid]

exec_vars == <<scan>>

VARIABLES
  lru,                 \* an LRUReplacer called directly: num_pages_, list_
  lru_op,              \* the last call of that replacer: its argument and result (history)
  arrival              \* its evictable frames in the order in which they became evictable (history)

lru_vars == <<lru, lru_op, arrival>>

VARIABLES
  dml,                 \* txn -> position of its DeleteExecutor::Next or UpdateExecutor::Next
  heap,                \* TableHeap: rid -> [value, deleted]
  index_entries        \* the entries of the table's index: <<key, rid>>

dml_vars == <<dml, heap, index_entries>>

VARIABLES
  aggregation,         \* AggregationExecutor: the child's tuples, the plan's HAVING, aht_, aht_iterator_
  aggregation_log      \* its calls: tuples produced since the last Init, and by the first drain (history)

agg_vars == <<aggregation, aggregation_log>>

VARIABLES
  catalog,             \* Catalog: tables_, names_, indexes_, index_names_, the next oids
  catalog_op,          \* the last catalog call: its arguments and result (history)
  catalog_log          \* the entries CreateTable and CreateIndex have returned (history)

catalog_vars == <<catalog, catalog_op, catalog_log>>

\* State of the components that are exercised on their own.
rest_vars == <<lru_vars, dml_vars, agg_vars, catalog_vars>>

vars == <<lm_vars, bpm_vars, tree_vars, exec_vars, rest_vars>>

not_lm_vars == <<bpm_vars, tree_vars, exec_vars, rest_vars>>

not_bpm_vars == <<lm_vars, tree_vars, exec_vars, rest_vars>>

not_tree_vars == <<lm_vars, last_op, exec_vars, rest_vars>>

not_lru_vars == <<lm_vars, bpm_vars, tree_vars, exec_vars, dml_vars, agg_vars, catalog_vars>>

not_dml_lm_vars == <<bpm_vars, tree_vars, exec_vars, lru_vars, agg_vars, catalog_vars>>

not_agg_vars == <<lm_vars, bpm_vars, tree_vars, exec_vars, lru_vars, dml_vars, catalog_vars>>

not_catalog_vars == <<lm_vars, bpm_vars, tree_vars, exec_vars, lru_vars, dml_vars, agg_vars>>

(***************************************************************************)
(* Sequence helpers.                                                       *)
(***************************************************************************)
Only(S) == CHOOSE x \in S : TRUE

RemoveAt(s, i) == SubSeq(s, 1, i - 1) \o SubSeq(s, i + 1, Len(s))

SetMax(S) == CHOOSE x \in S : \A y \in S : y <= x

SetMin(S) == CHOOSE x \in S : \A y \in S : x <= y

RECURSIVE SortedSeq(_)
SortedSeq(S) == IF S = {} THEN <<>> ELSE <<SetMin(S)>> \o SortedSeq(S \ {SetMin(S)})

Perms(S) == {p \in [1..Cardinality(S) -> S] : \A i, j \in 1..Cardinality(S) : p[i] = p[j] => i = j}

(***************************************************************************)
(* LRU replacer: src/src/buffer/lru_replacer.cpp.  list_ is the sequence,  *)
(* front first; map_ is the index of list_ and holds the same frames.      *)
(***************************************************************************)
INVALID_PAGE_ID == -1

SeqToSet(s) == {s[i] : i \in 1..Len(s)}

IndexOf(s, x) == SetMin({i \in 1..Len(s) : s[i] = x})

LRUReplacer(num_pages) == [num_pages |-> num_pages, list |-> <<>>]

Size(replacer) == Len(replacer.list)

\* Victim that takes the front of list_.
Victim_Mutant(replacer) ==
  IF Size(replacer) = 0
  THEN [ok |-> FALSE, frame_id |-> INVALID_PAGE_ID, replacer |-> replacer]
  ELSE [ok |-> TRUE,
        frame_id |-> replacer.list[1],
        replacer |-> [replacer EXCEPT !.list = Tail(@)]]

\* Victim: [ok, frame_id, replacer]
Victim(replacer) ==
  IF Size(replacer) = 0
  THEN [ok |-> FALSE, frame_id |-> INVALID_PAGE_ID, replacer |-> replacer]
  ELSE [ok |-> TRUE,
        frame_id |-> replacer.list[Len(replacer.list)],
        replacer |-> [replacer EXCEPT !.list = SubSeq(@, 1, Len(@) - 1)]]

\* Pin that leaves list_ as it is.
Pin_Mutant(replacer, frame_id) == replacer

Pin(replacer, frame_id) ==
  IF frame_id \notin SeqToSet(replacer.list) THEN replacer
  ELSE [replacer EXCEPT !.list = RemoveAt(@, IndexOf(@, frame_id))]

Unpin(replacer, frame_id) ==
  IF Size(replacer) = replacer.num_pages \/ frame_id \in SeqToSet(replacer.list)
  THEN replacer
  ELSE [replacer EXCEPT !.list = <<frame_id>> \o @]

(***************************************************************************)
(* The replacer called directly, as lru_replacer_test does.  The callers   *)
(* pass frame ids of their choice, more of them than num_pages_.           *)
(***************************************************************************)
LruFrameIds == 0..(LruFrames - 1)

\* The frames that are evictable after the call, oldest first: those that
\* stayed evictable keep their order, a frame that became evictable is last.
Arrivals(after) ==
  LET stayed == SelectSeq(arrival, LAMBDA f : f \in SeqToSet(after.list))
      came == SeqToSet(after.list) \ SeqToSet(arrival)
  IN stayed \o SortedSeq(came)

ReplacerVictim ==
  /\ UNCHANGED not_lru_vars
  /\ LET v == Victim(lru) IN
     /\ lru' = v.replacer
     /\ lru_op' = [op |-> "Victim", frame_id |-> IF v.ok THEN v.frame_id ELSE INVALID_PAGE_ID,
                   ret |-> v.ok]
     /\ arrival' = Arrivals(v.replacer)

ReplacerPin(frame_id) ==
  /\ UNCHANGED not_lru_vars
  /\ lru' = Pin(lru, frame_id)
  /\ lru_op' = [op |-> "Pin", frame_id |-> frame_id, ret |-> TRUE]
  /\ arrival' = Arrivals(Pin(lru, frame_id))

ReplacerUnpin(frame_id) ==
  /\ UNCHANGED not_lru_vars
  /\ lru' = Unpin(lru, frame_id)
  /\ lru_op' = [op |-> "Unpin", frame_id |-> frame_id, ret |-> TRUE]
  /\ arrival' = Arrivals(Unpin(lru, frame_id))

InitLRU ==
  /\ lru = LRUReplacer(LruCapacity)
  /\ lru_op = [op |-> "none", frame_id |-> INVALID_PAGE_ID, ret |-> TRUE]
  /\ arrival = <<>>

NextLRU ==
  \/ ReplacerVictim
  \/ \E frame_id \in LruFrameIds : ReplacerPin(frame_id)
  \/ \E frame_id \in LruFrameIds : ReplacerUnpin(frame_id)

(***************************************************************************)
(* Buffer pool manager: src/unnamed/part_002 (buffer_pool_manager.cpp).    *)
(* A Page* is the index of its frame in pages_.                            *)
(***************************************************************************)
NullPage == -1

\* The bytes of a page as a client wrote them; a zeroed page is Bytes(0).
Bytes(d) == [bytes |-> d]

ZeroData == Bytes(0)

\* Page::update(page_id, pin_count, is_dirty, reset_memory)
PageUpdate(page, page_id, pin_count, is_dirty, reset_memory) ==
  [page_id |-> page_id, pin_count |-> pin_count, is_dirty |-> is_dirty,
   data |-> IF reset_memory THEN ZeroData ELSE page.data]

BufferPoolManager(pool_size) ==
  [pool_size |-> pool_size,
   pages |-> [f \in 0..(pool_size - 1) |->
                [page_id |-> INVALID_PAGE_ID, pin_count |-> 0, is_dirty |-> FALSE,
                 data |-> ZeroData]],
   free_list |-> [i \in 1..pool_size |-> i - 1],
   page_table |-> <<>>,
   replacer |-> LRUReplacer(pool_size),
   disk |-> [p \in 0..(MaxPages - 1) |-> ZeroData],
   next_page_id |-> 0,
   written |-> <<>>]

\* page_table_.erase(page_id)
TableErase(page_table, page_id) ==
  [p \in DOMAIN page_table \ {page_id} |-> page_table[p]]

\* page_table_[page_id] = frame_id
TableSet(page_table, page_id, frame_id) ==
  [p \in DOMAIN page_table \cup {page_id} |->
     IF p = page_id THEN frame_id ELSE page_table[p]]

\* disk_manager_->WritePage(page_id, data)
WritePage(b, page_id, data) ==
  [b EXCEPT !.disk = [p \in DOMAIN @ \cup {page_id} |-> IF p = page_id THEN data ELSE @[p]],
            !.written = Append(@, page_id)]

\* disk_manager_->ReadPage(page_id, data): a page past the end of the file reads as zeros.
ReadPage(b, page_id) == IF page_id \in DOMAIN b.disk THEN b.disk[page_id] ELSE ZeroData

\* GetVictimFrameId: [frame_id, b]
GetVictimFrameId(b) ==
  IF b.free_list # <<>>
  THEN [frame_id |-> Head(b.free_list), b |-> [b EXCEPT !.free_list = Tail(@)]]
  ELSE LET v == Victim(b.replacer) IN
       [frame_id |-> v.frame_id, b |-> [b EXCEPT !.replacer = v.replacer]]

\* A victim frame that is reused without its write-back.
WriteBackIfDirty_Mutant(b, frame_id) == b

\* The write-back of a dirty victim frame (FetchPageImpl step 2, NewPageImpl step 2).
WriteBackIfDirty(b, frame_id) ==
  IF b.pages[frame_id].is_dirty
  THEN WritePage(b, b.pages[frame_id].page_id, b.pages[frame_id].data)
  ELSE b

\* FetchPageImpl: [page, b]
FetchPageImpl(b, page_id) ==
  IF page_id \in DOMAIN b.page_table
  THEN LET frame_id == b.page_table[page_id] IN
       [page |-> frame_id,
        b |-> [b EXCEPT !.replacer = Pin(@, frame_id),
                        !.pages[frame_id].pin_count = @ + 1]]
  ELSE LET v == GetVictimFrameId(b) IN
       IF v.frame_id = INVALID_PAGE_ID
       THEN [page |-> NullPage, b |-> v.b]
       ELSE LET frame_id == v.frame_id
                b1 == WriteBackIfDirty(v.b, frame_id)
                page == b1.pages[frame_id]
                read == [page EXCEPT !.data = ReadPage(b1, page_id)]
            IN [page |-> frame_id,
                b |-> [b1 EXCEPT
                         !.page_table = TableSet(TableErase(@, page.page_id), page_id, frame_id),
                         !.pages[frame_id] = PageUpdate(read, page_id, 1, FALSE, FALSE),
                         !.replacer = Pin(@, frame_id)]]

\* UnpinPageImpl that assigns is_dirty to the frame's flag.
UnpinPageImpl_Mutant(b, page_id, is_dirty) ==
  IF page_id \notin DOMAIN b.page_table THEN [ret |-> FALSE, b |-> b]
  ELSE LET frame_id == b.page_table[page_id]
           page == b.pages[frame_id]
       IN IF page.pin_count <= 0 THEN [ret |-> FALSE, b |-> b]
          ELSE [ret |-> TRUE,
                b |-> [b EXCEPT !.pages[frame_id].is_dirty = is_dirty,
                                !.pages[frame_id].pin_count = @ - 1,
                                !.replacer = IF page.pin_count - 1 = 0
                                             THEN Unpin(@, frame_id) ELSE @]]

\* UnpinPageImpl: [ret, b]
UnpinPageImpl(b, page_id, is_dirty) ==
  IF page_id \notin DOMAIN b.page_table THEN [ret |-> FALSE, b |-> b]
  ELSE LET frame_id == b.page_table[page_id]
           page == b.pages[frame_id]
       IN IF page.pin_count <= 0 THEN [ret |-> FALSE, b |-> b]
          ELSE [ret |-> TRUE,
                b |-> [b EXCEPT !.pages[frame_id].is_dirty = @ \/ is_dirty,
                                !.pages[frame_id].pin_count = @ - 1,
                                !.replacer = IF page.pin_count - 1 = 0
                                             THEN Unpin(@, frame_id) ELSE @]]

\* FlushPageImpl that clears the dirty flag without DiskManager::WritePage.
FlushPageImpl_Mutant(b, page_id) ==
  IF page_id \notin DOMAIN b.page_table THEN [ret |-> FALSE, b |-> b]
  ELSE [ret |-> TRUE,
        b |-> [b EXCEPT !.pages[b.page_table[page_id]].is_dirty = FALSE]]

\* FlushPageImpl: [ret, b]
FlushPageImpl(b, page_id) ==
  IF page_id \notin DOMAIN b.page_table THEN [ret |-> FALSE, b |-> b]
  ELSE LET frame_id == b.page_table[page_id] IN
       [ret |-> TRUE,
        b |-> [WritePage(b, page_id, b.pages[frame_id].data)
                 EXCEPT !.pages[frame_id].is_dirty = FALSE]]

\* NewPageImpl that calls AllocatePage before it looks for a frame.
NewPageImpl_Mutant(b) ==
  LET a == [b EXCEPT !.next_page_id = @ + 1]
      v == GetVictimFrameId(a)
  IN
  IF v.frame_id = INVALID_PAGE_ID
  THEN [page |-> NullPage, page_id |-> INVALID_PAGE_ID, b |-> v.b]
  ELSE LET frame_id == v.frame_id
           b1 == WriteBackIfDirty(v.b, frame_id)
           page == b1.pages[frame_id]
           page_id == b.next_page_id
       IN [page |-> frame_id,
           page_id |-> page_id,
           b |-> [b1 EXCEPT
                    !.page_table = TableSet(TableErase(@, page.page_id), page_id, frame_id),
                    !.pages[frame_id] = PageUpdate(page, page_id, 1, FALSE, TRUE),
                    !.replacer = Pin(@, frame_id)]]

\* NewPageImpl: [page, page_id, b]; AllocatePage returns next_page_id_++.
NewPageImpl(b) ==
  LET v == GetVictimFrameId(b) IN
  IF v.frame_id = INVALID_PAGE_ID
  THEN [page |-> NullPage, page_id |-> INVALID_PAGE_ID, b |-> v.b]
  ELSE LET frame_id == v.frame_id
           b1 == WriteBackIfDirty(v.b, frame_id)
           page == b1.pages[frame_id]
           page_id == b1.next_page_id
       IN [page |-> frame_id,
           page_id |-> page_id,
           b |-> [b1 EXCEPT
                    !.next_page_id = @ + 1,
                    !.page_table = TableSet(TableErase(@, page.page_id), page_id, frame_id),
                    !.pages[frame_id] = PageUpdate(page, page_id, 1, FALSE, TRUE),
                    !.replacer = Pin(@, frame_id)]]

\* DeletePageImpl: [ret, b]; DeallocatePage keeps no record on disk.
DeletePageImpl(b, page_id) ==
  IF page_id \notin DOMAIN b.page_table THEN [ret |-> TRUE, b |-> b]
  ELSE LET frame_id == b.page_table[page_id]
           page == b.pages[frame_id]
       IN IF page.pin_count > 0 THEN [ret |-> FALSE, b |-> b]
          ELSE [ret |-> TRUE,
                b |-> [b EXCEPT
                         !.page_table = TableErase(@, page.page_id),
                         !.free_list = Append(@, frame_id),
                         !.pages[frame_id] = PageUpdate(page, INVALID_PAGE_ID, 0, FALSE, FALSE)]]

\* FlushAllPagesImpl
RECURSIVE FlushAllFrom(_, _)
FlushAllFrom(b, todo) ==
  IF todo = {} THEN b
  ELSE LET page_id == SetMin(todo)
           frame_id == b.page_table[page_id]
           b1 == IF b.pages[frame_id].is_dirty
                 THEN [WritePage(b, page_id, b.pages[frame_id].data)
                         EXCEPT !.pages[frame_id].is_dirty = FALSE]
                 ELSE b
       IN FlushAllFrom(b1, todo \ {page_id})

FlushAllPagesImpl(b) == FlushAllFrom(b, DOMAIN b.page_table)

(***************************************************************************)
(* The buffer pool's operations as calls of a client.                      *)
(***************************************************************************)
\* Clients name the pages the disk manager has allocated.
PageIds == 0..(bpm.next_page_id - 1)

IsResident(b, page_id) == page_id \in DOMAIN b.page_table

FrameOf(b, page_id) == b.pages[b.page_table[page_id]]

\* The record of a call: what the page looked like on entry and what the call wrote;
\* is_dirty is the argument of an UnpinPage call.
OpRecord(op, page_id, b, after, ret) ==
  [op |-> op, page_id |-> page_id, ret |-> ret,
   is_dirty |-> FALSE,
   was_resident |-> IsResident(b, page_id),
   was_dirty |-> IsResident(b, page_id) /\ FrameOf(b, page_id).is_dirty,
   written |-> after.written]

BeginCall(b) == [b EXCEPT !.written = <<>>]

FetchPage(page_id) ==
  /\ UNCHANGED not_bpm_vars
  /\ IsResident(bpm, page_id) => FrameOf(bpm, page_id).pin_count < MaxPin
  /\ LET r == FetchPageImpl(BeginCall(bpm), page_id) IN
     /\ bpm' = r.b
     /\ last_op' = OpRecord("FetchPage", page_id, bpm, r.b, r.page # NullPage)

NewPage ==
  /\ UNCHANGED not_bpm_vars
  /\ bpm.next_page_id < MaxPages
  /\ LET r == NewPageImpl(BeginCall(bpm)) IN
     /\ bpm' = r.b
     /\ last_op' = OpRecord("NewPage", r.page_id, bpm, r.b, r.page # NullPage)

UnpinPage(page_id, is_dirty) ==
  /\ UNCHANGED not_bpm_vars
  /\ LET r == UnpinPageImpl(BeginCall(bpm), page_id, is_dirty) IN
     /\ bpm' = r.b
     /\ last_op' = [OpRecord("UnpinPage", page_id, bpm, r.b, r.ret) EXCEPT !.is_dirty = is_dirty]

FlushPage(page_id) ==
  /\ UNCHANGED not_bpm_vars
  /\ LET r == FlushPageImpl(BeginCall(bpm), page_id) IN
     /\ bpm' = r.b
     /\ last_op' = OpRecord("FlushPage", page_id, bpm, r.b, r.ret)

DeletePage(page_id) ==
  /\ UNCHANGED not_bpm_vars
  /\ LET r == DeletePageImpl(BeginCall(bpm), page_id) IN
     /\ bpm' = r.b
     /\ last_op' = OpRecord("DeletePage", page_id, bpm, r.b, r.ret)

FlushAllPages ==
  /\ UNCHANGED not_bpm_vars
  /\ LET b == FlushAllPagesImpl(BeginCall(bpm)) IN
     /\ bpm' = b
     /\ last_op' = OpRecord("FlushAllPages", INVALID_PAGE_ID, bpm, b, TRUE)

\* A client that holds a pin on the page writes its bytes.
WriteData(page_id, data) ==
  /\ UNCHANGED not_bpm_vars
  /\ IsResident(bpm, page_id)
  /\ FrameOf(bpm, page_id).pin_count > 0
  /\ bpm' = [BeginCall(bpm) EXCEPT !.pages[bpm.page_table[page_id]].data = Bytes(data)]
  /\ last_op' = OpRecord("WriteData", page_id, bpm, BeginCall(bpm), TRUE)

NoOp == [op |-> "none", page_id |-> INVALID_PAGE_ID, ret |-> TRUE, is_dirty |-> FALSE,
         was_resident |-> FALSE, was_dirty |-> FALSE, written |-> <<>>]

InitBPM ==
  /\ bpm = BufferPoolManager(PoolSize)
  /\ last_op = NoOp

NextBPM ==
  \/ \E page_id \in PageIds : FetchPage(page_id)
  \/ NewPage
  \/ \E page_id \in PageIds, is_dirty \in BOOLEAN : UnpinPage(page_id, is_dirty)
  \/ \E page_id \in PageIds : FlushPage(page_id)
  \/ \E page_id \in PageIds : DeletePage(page_id)
  \/ FlushAllPages
  \/ \E page_id \in PageIds, data \in 1..MaxData : WriteData(page_id, data)

(***************************************************************************)
(* B+tree pages.  The page classes (b_plus_tree_page, b_plus_tree_leaf_page, *)
(* b_plus_tree_internal_page, header_page) are not among the source files: *)
(* their operators follow the specification's data model and the calls in  *)
(* src/src/storage/index/b_plus_tree.cpp.  array is the pair array; the    *)
(* index arguments count from 0 as in the code.                            *)
(***************************************************************************)
HEADER_PAGE_ID == 0

CeilHalf(n) == (n + 1) \div 2

IsNode(data) == "page_type" \in DOMAIN data

LeafInit(page_id, parent_id, max_size) ==
  [page_type |-> "LEAF", page_id |-> page_id, parent_page_id |-> parent_id,
   max_size |-> max_size, next_page_id |-> INVALID_PAGE_ID, array |-> <<>>]

InternalInit(page_id, parent_id, max_size) ==
  [page_type |-> "INTERNAL", page_id |-> page_id, parent_page_id |-> parent_id,
   max_size |-> max_size, next_page_id |-> INVALID_PAGE_ID, array |-> <<>>]

IsLeafPage(node) == node.page_type = "LEAF"

IsRootPage(node) == node.parent_page_id = INVALID_PAGE_ID

GetSize(node) == Len(node.array)

GetMaxSize(node) == node.max_size

\* Internal nodes hold at least ceil(m / 2) pairs, leaves at least ceil((m - 1) / 2).
GetMinSize(node) ==
  IF IsLeafPage(node) THEN CeilHalf(node.max_size - 1) ELSE CeilHalf(node.max_size)

KeyAt(node, index) == node.array[index + 1].key

ValueAt(node, index) == node.array[index + 1].value

SetKeyAt(node, index, key) == [node EXCEPT !.array[index + 1].key = key]

Pair(key, value) == [key |-> key, value |-> value]

InsertAt(s, i, x) == SubSeq(s, 1, i - 1) \o <<x>> \o SubSeq(s, i, Len(s))

\* Leaf: the first index whose key is >= key (GetSize when there is none).
KeyIndex(node, key) ==
  Cardinality({i \in 1..GetSize(node) : node.array[i].key < key})

\* Leaf: [found, value]
LeafLookup(node, key) ==
  LET index == KeyIndex(node, key) IN
  IF index < GetSize(node) /\ KeyAt(node, index) = key
  THEN [found |-> TRUE, value |-> ValueAt(node, index)]
  ELSE [found |-> FALSE, value |-> 0]

\* Leaf: insert the pair in key order; the size after the call is GetSize of the result.
LeafInsert(node, key, value) ==
  IF LeafLookup(node, key).found THEN node
  ELSE [node EXCEPT !.array = InsertAt(@, KeyIndex(node, key) + 1, Pair(key, value))]

LeafRemoveAndDeleteRecord(node, key) ==
  IF ~LeafLookup(node, key).found THEN node
  ELSE [node EXCEPT !.array = RemoveAt(@, KeyIndex(node, key) + 1)]

\* Internal: the child that covers key, i.e. the last index i with i = 0 or key_i <= key.
InternalLookup(node, key) ==
  LET le == {i \in 2..GetSize(node) : node.array[i].key <= key} IN
  IF le = {} THEN node.array[1].value ELSE node.array[SetMax(le)].value

\* Internal: the index of the pair whose value is the child, GetSize when there is none.
ValueIndex(node, value) ==
  LET at == {i \in 1..GetSize(node) : node.array[i].value = value} IN
  IF at = {} THEN GetSize(node) ELSE SetMin(at) - 1

PopulateNewRoot(node, old_value, new_key, new_value) ==
  [node EXCEPT !.array = <<Pair(0, old_value), Pair(new_key, new_value)>>]

InsertNodeAfter(node, old_value, new_key, new_value) ==
  [node EXCEPT !.array = InsertAt(@, ValueIndex(node, old_value) + 2, Pair(new_key, new_value))]

InternalRemove(node, index) == [node EXCEPT !.array = RemoveAt(@, index + 1)]

(***************************************************************************)
(* B+tree: src/src/storage/index/b_plus_tree.cpp.  An operation is a       *)
(* function of the record st: the buffer pool b, root_page_id_, the root   *)
(* guard root_latch_, the page latches the thread holds (by frame), the    *)
(* transaction's page set and deleted page set, and the history of the     *)
(* call: fresh (frames it allocated), unlatched (pages it changed without  *)
(* their write latch), root_unguarded (root_page_id_ changed without the   *)
(* guard), freed_latched (frames it gave to the free list while it held a  *)
(* latch on them), unpin_failed (page ids whose UnpinPage returned false),  *)
(* blocked (it waits for a latch that is never released), ub (it   *)
(* read a page that holds no node).  A Page* or node pointer is a frame.   *)
(* Bind(v, LAMBDA s : e) is the statement sequence "s = v; e".             *)
(***************************************************************************)
Bind(v, Rest(_)) == Only({Rest(s) : s \in {v}})

Node(st, page) == st.b.pages[page].data

\* Page::GetPageId() of the frame; node->GetPageId() is Node(st, page).page_id.
PageIdOf(st, page) == st.b.pages[page].page_id

Ub(st) == [st EXCEPT !.ub = TRUE]

\* A write to the node in the frame.
SetNode(st, page, node) ==
  [st EXCEPT !.b.pages[page].data = node,
             !.unlatched = IF page \in st.wlatch \cup st.fresh
                           THEN @ ELSE @ \cup {PageIdOf(st, page)}]

\* A write to root_page_id_.
SetRoot(st, page_id) ==
  [st EXCEPT !.root_page_id = page_id,
             !.root_unguarded = @ \/ ~st.root_latch]

TreeFetchPage(st, page_id) ==
  Bind(FetchPageImpl(st.b, page_id), LAMBDA r :
    [st EXCEPT !.b = r.b, !.page = r.page, !.oom = @ \/ r.page = NullPage])

\* UnpinPage; a call that returns false found no pin to release.
TreeUnpinPage(st, page_id, is_dirty) ==
  Bind(UnpinPageImpl(st.b, page_id, is_dirty), LAMBDA r :
    [st EXCEPT !.b = r.b,
               !.unpin_failed = IF r.ret THEN @ ELSE @ \cup {page_id}])

\* DeletePage; a call that returns the frame of the page to the free list
\* while the thread holds a latch on that frame is recorded.
TreeDeletePage(st, page_id) ==
  Bind(DeletePageImpl(st.b, page_id), LAMBDA r :
    [st EXCEPT !.b = r.b,
               !.freed_latched =
                 IF /\ page_id \in DOMAIN st.b.page_table
                    /\ page_id \notin DOMAIN r.b.page_table
                    /\ st.b.page_table[page_id] \in st.wlatch \cup st.rlatch
                 THEN @ \cup {st.b.page_table[page_id]} ELSE @])

\* NewPage(&page_id) of the tree: the new frame is st.page, its id st.new_page_id.
TreeNewPage(st) ==
  Bind(NewPageImpl(st.b), LAMBDA r :
    [st EXCEPT !.b = r.b, !.page = r.page, !.new_page_id = r.page_id,
               !.fresh = @ \cup {r.page}, !.oom = @ \/ r.page = NullPage,
               !.exception = @ \/ r.page = NullPage])

WLatch(st, page) ==
  IF page \in st.wlatch \cup st.rlatch THEN [st EXCEPT !.blocked = TRUE]
  ELSE [st EXCEPT !.wlatch = @ \cup {page}]

WUnlatch(st, page) == [st EXCEPT !.wlatch = @ \ {page}]

RLatch(st, page) ==
  IF page \in st.wlatch THEN [st EXCEPT !.blocked = TRUE]
  ELSE [st EXCEPT !.rlatch = @ \cup {page}]

RUnlatch(st, page) == [st EXCEPT !.rlatch = @ \ {page}]

RootLock(st) ==
  IF st.root_latch THEN [st EXCEPT !.blocked = TRUE]
  ELSE [st EXCEPT !.root_latch = TRUE]

RootUnlock(st) == [st EXCEPT !.root_latch = FALSE]

IsEmpty(st) == st.root_page_id = INVALID_PAGE_ID

IsPageSafe(node, operation) ==
  LET size == GetSize(node) IN
  CASE operation = "READ" -> TRUE
    [] operation = "INSERT" -> size < GetMaxSize(node) - 1
    [] operation = "REMOVE" ->
         IF IsRootPage(node)
         THEN IF IsLeafPage(node) THEN size > 1 ELSE size > 2
         ELSE size > GetMinSize(node)

\* UnlockAncestors that skips root_latch_.unlock() for the null entry.
RECURSIVE UnlockAncestors_Mutant(_, _)
UnlockAncestors_Mutant(st, unpin) ==
  IF st.page_set = <<>> THEN st
  ELSE LET page == Head(st.page_set) IN
       Bind([st EXCEPT !.page_set = Tail(@)], LAMBDA popped :
       Bind(IF page = NullPage THEN popped ELSE WUnlatch(popped, page),
            LAMBDA s1 :
       Bind(IF page # NullPage /\ unpin
            THEN TreeUnpinPage(s1, PageIdOf(s1, page), FALSE) ELSE s1, LAMBDA s2 :
         UnlockAncestors_Mutant(s2, unpin))))

RECURSIVE UnlockAncestors(_, _)
UnlockAncestors(st, unpin) ==
  IF st.page_set = <<>> THEN st
  ELSE LET page == Head(st.page_set) IN
       Bind([st EXCEPT !.page_set = Tail(@)], LAMBDA popped :
       Bind(IF page = NullPage THEN RootUnlock(popped) ELSE WUnlatch(popped, page),
            LAMBDA s1 :
       Bind(IF page # NullPage /\ unpin
            THEN TreeUnpinPage(s1, PageIdOf(s1, page), FALSE) ELSE s1, LAMBDA s2 :
         UnlockAncestors(s2, unpin))))

\* The loop of FindLeafPage from the latched page down to the leaf; the leaf is st.page.
RECURSIVE Descend(_, _, _, _, _)
Descend(st, page, key, leftMost, operation) ==
  LET node == Node(st, page) IN
  IF ~IsNode(node) THEN Ub([st EXCEPT !.page = page])
  ELSE IF IsLeafPage(node) THEN [st EXCEPT !.page = page]
  ELSE IF GetSize(node) = 0 THEN Ub([st EXCEPT !.page = page])
  ELSE LET page_id == IF ~leftMost THEN InternalLookup(node, key) ELSE ValueAt(node, 0) IN
       Bind(TreeFetchPage(st, page_id), LAMBDA fetched :
       LET child_page == fetched.page IN
       IF operation = "READ"
       THEN Bind(RLatch(fetched, child_page), LAMBDA s1 :
            Bind(RUnlatch(s1, page), LAMBDA s2 :
            Bind(TreeUnpinPage(s2, PageIdOf(s2, page), FALSE), LAMBDA s3 :
              Descend(s3, child_page, key, leftMost, operation))))
       ELSE Bind(WLatch(fetched, child_page), LAMBDA s1 :
            Bind([s1 EXCEPT !.page_set = Append(@, page)], LAMBDA s2 :
            Bind(IF IsNode(Node(s2, child_page))
                    /\ IsPageSafe(Node(s2, child_page), operation)
                 THEN UnlockAncestors(s2, TRUE) ELSE s2, LAMBDA s3 :
              Descend(s3, child_page, key, leftMost, operation)))))

FindLeafPage(st, key, leftMost, operation) ==
  Bind(IF operation = "READ" THEN RootLock(st) ELSE st, LAMBDA locked :
  Bind(TreeFetchPage(locked, locked.root_page_id), LAMBDA fetched :
  LET page == fetched.page IN
  IF operation = "READ"
  THEN Bind(RLatch(fetched, page), LAMBDA s1 :
       Bind(RootUnlock(s1), LAMBDA s2 :
         Descend(s2, page, key, leftMost, operation)))
  ELSE Bind(WLatch(fetched, page), LAMBDA s1 :
       Bind(IF ~(IsNode(Node(s1, page)) /\ IsPageSafe(Node(s1, page), operation))
            THEN [s1 EXCEPT !.page_set = Append(@, NullPage)]
            ELSE RootUnlock(s1), LAMBDA s2 :
         Descend(s2, page, key, leftMost, operation)))))

\* HeaderPage::InsertRecord adds the record when the index has none,
\* HeaderPage::UpdateRecord rewrites the record when the index has one.
UpdateRootPageId(st, insert_record) ==
  Bind(TreeFetchPage(st, HEADER_PAGE_ID), LAMBDA fetched :
  LET header_page == fetched.page
      data == Node(fetched, header_page)
      has_record == "root_id" \in DOMAIN data
      written == IF (insert_record # 0) = has_record THEN data
                 ELSE [root_id |-> st.root_page_id]
  IN Bind([fetched EXCEPT !.b.pages[header_page].data = written], LAMBDA s1 :
       TreeUnpinPage(s1, HEADER_PAGE_ID, TRUE)))

\* The children named by the pairs get parent_page_id = parent_id: each is fetched,
\* rewritten and unpinned dirty.  These writes of the page classes are not entered
\* in st.unlatched, which holds the writes of b_plus_tree.cpp to the nodes it names.
RECURSIVE Reparent(_, _, _)
Reparent(st, pairs, parent_id) ==
  IF pairs = <<>> THEN st
  ELSE Bind(TreeFetchPage(st, Head(pairs).value), LAMBDA fetched :
       LET child == fetched.page IN
       Bind(IF IsNode(Node(fetched, child))
            THEN [fetched EXCEPT !.b.pages[child].data.parent_page_id = parent_id]
            ELSE Ub(fetched), LAMBDA s1 :
       Bind(TreeUnpinPage(s1, Head(pairs).value, TRUE), LAMBDA s2 :
         Reparent(s2, Tail(pairs), parent_id))))

\* node->MoveHalfTo(recipient, bpm): the pairs from index GetMinSize on move to the
\* empty recipient; a leaf hands over its place in the sibling chain.
MoveHalfTo(st, page, recipient) ==
  LET node == Node(st, page)
      to == Node(st, recipient)
      kept == SubSeq(node.array, 1, GetMinSize(node))
      moved == SubSeq(node.array, GetMinSize(node) + 1, GetSize(node))
  IN IF IsLeafPage(node)
     THEN Bind(SetNode(st, recipient,
                       [to EXCEPT !.array = moved, !.next_page_id = node.next_page_id]),
               LAMBDA s1 :
            SetNode(s1, page, [node EXCEPT !.array = kept, !.next_page_id = to.page_id]))
     ELSE Bind(SetNode(st, recipient, [to EXCEPT !.array = moved]), LAMBDA s1 :
          Bind(SetNode(s1, page, [node EXCEPT !.array = kept]), LAMBDA s2 :
            Reparent(s2, moved, to.page_id)))

\* Split: the new node is st.page.
Split(st, page) ==
  Bind(TreeNewPage(st), LAMBDA new :
  IF new.exception THEN new ELSE
  LET new_page == new.page
      node == Node(new, page)
      new_node == IF IsLeafPage(node)
                  THEN LeafInit(new.new_page_id, node.parent_page_id, GetMaxSize(node))
                  ELSE InternalInit(new.new_page_id, node.parent_page_id, GetMaxSize(node))
  IN Bind(SetNode(new, new_page, new_node), LAMBDA s1 :
     Bind(MoveHalfTo(s1, page, new_page), LAMBDA s2 :
       [s2 EXCEPT !.page = new_page])))

RECURSIVE InsertIntoParent(_, _, _, _)
InsertIntoParent(st, old_page, key, new_page) ==
  LET old_node == Node(st, old_page) IN
  IF IsRootPage(old_node)
  THEN Bind(TreeNewPage(st), LAMBDA new :
       IF new.exception THEN new ELSE
       Bind(SetRoot(new, new.new_page_id), LAMBDA rooted :
       LET root_page == new.page
           root == PopulateNewRoot(
                     InternalInit(rooted.root_page_id, INVALID_PAGE_ID, InternalMaxSize),
                     old_node.page_id, key, Node(st, new_page).page_id)
       IN Bind(SetNode(rooted, root_page, root), LAMBDA s1 :
          Bind(SetNode(s1, old_page,
                       [Node(s1, old_page) EXCEPT !.parent_page_id = s1.root_page_id]),
               LAMBDA s2 :
          Bind(SetNode(s2, new_page,
                       [Node(s2, new_page) EXCEPT !.parent_page_id = s2.root_page_id]),
               LAMBDA s3 :
          Bind(UpdateRootPageId(s3, 0), LAMBDA s4 :
          Bind(TreeUnpinPage(s4, s4.root_page_id, TRUE), LAMBDA s5 :
            UnlockAncestors(s5, FALSE))))))))
  ELSE LET parent_id == old_node.parent_page_id IN
       Bind(TreeFetchPage(st, parent_id), LAMBDA fetched :
       LET parent == fetched.page IN
       IF ~IsNode(Node(fetched, parent)) THEN Ub(fetched)
       ELSE
       Bind(SetNode(fetched, parent,
                    InsertNodeAfter(Node(fetched, parent), old_node.page_id, key,
                                    Node(fetched, new_page).page_id)), LAMBDA s1 :
       LET size == GetSize(Node(s1, parent)) IN
       IF size = InternalMaxSize
       THEN Bind(Split(s1, parent), LAMBDA s2 :
            IF s2.exception THEN s2 ELSE
            LET split_page == s2.page IN
            Bind(InsertIntoParent(s2, parent, KeyAt(Node(s2, split_page), 0), split_page),
                 LAMBDA s3 :
            IF s3.exception THEN s3 ELSE
            Bind(TreeUnpinPage(s3, Node(s3, split_page).page_id, TRUE), LAMBDA s4 :
              TreeUnpinPage(s4, parent_id, TRUE))))
       ELSE Bind(UnlockAncestors(s1, FALSE), LAMBDA s2 :
              TreeUnpinPage(s2, parent_id, TRUE))))

StartNewTree(st, key, value) ==
  Bind(TreeNewPage(st), LAMBDA new :
  IF new.exception THEN new ELSE
  Bind(SetRoot(new, new.new_page_id), LAMBDA rooted :
  LET root == LeafInsert(LeafInit(rooted.root_page_id, INVALID_PAGE_ID, LeafMaxSize),
                         key, value)
  IN Bind(SetNode(rooted, new.page, root), LAMBDA s1 :
     Bind(UpdateRootPageId(s1, 1), LAMBDA s2 :
     Bind(RootUnlock(s2), LAMBDA s3 :
       TreeUnpinPage(s3, s3.root_page_id, TRUE))))))

InsertIntoLeaf(st, key, value) ==
  Bind(FindLeafPage(st, key, FALSE, "INSERT"), LAMBDA found :
  LET leaf_page == found.page
      leaf == Node(found, leaf_page)
  IN IF found.ub THEN found
     ELSE IF LeafLookup(leaf, key).found
     THEN Bind(UnlockAncestors(found, TRUE), LAMBDA s1 :
          Bind(WUnlatch(s1, leaf_page), LAMBDA s2 :
          Bind(TreeUnpinPage(s2, leaf.page_id, FALSE), LAMBDA s3 :
            [s3 EXCEPT !.ret = FALSE])))
     ELSE Bind(SetNode(found, leaf_page, LeafInsert(leaf, key, value)), LAMBDA s1 :
          LET size == GetSize(Node(s1, leaf_page)) IN
          Bind(IF size = LeafMaxSize
               THEN Bind(Split(s1, leaf_page), LAMBDA sp :
                    IF sp.exception THEN sp ELSE
                    LET new_leaf == sp.page IN
                    Bind(InsertIntoParent(sp, leaf_page, KeyAt(Node(sp, new_leaf), 0),
                                          new_leaf), LAMBDA ip :
                      IF ip.exception THEN ip ELSE
                      TreeUnpinPage(ip, Node(ip, new_leaf).page_id, TRUE)))
               ELSE s1, LAMBDA s2 :
          IF s2.exception THEN s2 ELSE
          Bind(UnlockAncestors(s2, TRUE), LAMBDA s3 :
          Bind(WUnlatch(s3, leaf_page), LAMBDA s4 :
          Bind(TreeUnpinPage(s4, Node(s4, leaf_page).page_id, TRUE), LAMBDA s5 :
            [s5 EXCEPT !.ret = TRUE]))))))

\* An Insert that reports success also for a key that is present.
TreeInsert_Mutant(st, key, value) ==
  Bind(RootLock(st), LAMBDA locked :
  Bind(IF ~IsEmpty(locked) THEN InsertIntoLeaf(locked, key, value)
       ELSE StartNewTree(locked, key, value), LAMBDA s1 :
    [s1 EXCEPT !.ret = TRUE]))

\* BPlusTree::Insert
TreeInsert(st, key, value) ==
  Bind(RootLock(st), LAMBDA locked :
    IF ~IsEmpty(locked) THEN InsertIntoLeaf(locked, key, value)
    ELSE Bind(StartNewTree(locked, key, value), LAMBDA s1 : [s1 EXCEPT !.ret = TRUE]))

\* BPlusTree::GetValue: ret is the result vector.
\* GetValue after root_latch_.unlock() of line 50: FindLeafPage, Lookup, RUnlatch, UnpinPage.
GetValueFind(st, key) ==
  Bind(FindLeafPage(st, key, FALSE, "READ"), LAMBDA found :
  LET leaf_page == found.page
      leaf == Node(found, leaf_page)
  IN IF found.ub THEN found
     ELSE Bind(RUnlatch(found, leaf_page), LAMBDA s1 :
          Bind(TreeUnpinPage(s1, leaf.page_id, FALSE), LAMBDA s2 :
            [s2 EXCEPT !.ret = IF LeafLookup(leaf, key).found
                               THEN <<LeafLookup(leaf, key).value>> ELSE <<>>])))

TreeGetValue(st, key) ==
  Bind(RootLock(st), LAMBDA locked :
    IF IsEmpty(locked) THEN [RootUnlock(locked) EXCEPT !.ret = <<>>]
    ELSE GetValueFind(RootUnlock(locked), key))

\* node->MoveAllTo(recipient, middle_key, bpm): every pair moves to the end of the
\* recipient; an internal node first takes middle_key as the key of its slot 0.
MoveAllTo(st, page, recipient, middle_key) ==
  LET node == Node(st, page)
      to == Node(st, recipient)
  IN IF IsLeafPage(node)
     THEN Bind(SetNode(st, recipient,
                       [to EXCEPT !.array = @ \o node.array,
                                  !.next_page_id = node.next_page_id]), LAMBDA s1 :
            SetNode(s1, page, [node EXCEPT !.array = <<>>]))
     ELSE LET moved == [node.array EXCEPT ![1].key = middle_key] IN
          Bind(SetNode(st, recipient, [to EXCEPT !.array = @ \o moved]), LAMBDA s1 :
          Bind(SetNode(s1, page, [node EXCEPT !.array = <<>>]), LAMBDA s2 :
            Reparent(s2, moved, to.page_id)))

\* node->MoveFirstToEndOf(recipient, middle_key, bpm)
MoveFirstToEndOf(st, page, recipient, middle_key) ==
  LET node == Node(st, page)
      to == Node(st, recipient)
      first == IF IsLeafPage(node) THEN node.array[1]
               ELSE Pair(middle_key, node.array[1].value)
  IN Bind(SetNode(st, recipient, [to EXCEPT !.array = Append(@, first)]), LAMBDA s1 :
     Bind(SetNode(s1, page, [node EXCEPT !.array = Tail(@)]), LAMBDA s2 :
       IF IsLeafPage(node) THEN s2 ELSE Reparent(s2, <<first>>, to.page_id)))

\* node->MoveLastToFrontOf(recipient, middle_key, bpm)
MoveLastToFrontOf(st, page, recipient, middle_key) ==
  LET node == Node(st, page)
      to == Node(st, recipient)
      last == node.array[GetSize(node)]
      shifted == IF IsLeafPage(node) THEN to.array
                 ELSE [to.array EXCEPT ![1].key = middle_key]
  IN Bind(SetNode(st, recipient, [to EXCEPT !.array = <<last>> \o shifted]), LAMBDA s1 :
     Bind(SetNode(s1, page, [node EXCEPT !.array = SubSeq(@, 1, Len(@) - 1)]), LAMBDA s2 :
       IF IsLeafPage(node) THEN s2 ELSE Reparent(s2, <<last>>, to.page_id)))

\* AdjustRoot that keeps an emptied leaf as the root.
AdjustRoot_Mutant(st, old_root_page) ==
  LET old_root_node == Node(st, old_root_page) IN
  IF ~IsLeafPage(old_root_node) /\ GetSize(old_root_node) = 1
  THEN Bind(SetNode(st, old_root_page, [old_root_node EXCEPT !.array = <<>>]), LAMBDA s1 :
       Bind(SetRoot(s1, ValueAt(old_root_node, 0)), LAMBDA s2 :
       Bind(TreeFetchPage(s2, s2.root_page_id), LAMBDA fetched :
       LET child == fetched.page IN
       Bind(IF IsNode(Node(fetched, child))
            THEN SetNode(fetched, child,
                         [Node(fetched, child) EXCEPT !.parent_page_id = INVALID_PAGE_ID])
            ELSE Ub(fetched), LAMBDA s3 :
       Bind(TreeUnpinPage(s3, s3.root_page_id, TRUE), LAMBDA s4 :
       Bind(UpdateRootPageId(s4, 0), LAMBDA s5 :
         [s5 EXCEPT !.ret = TRUE]))))))
  ELSE [st EXCEPT !.ret = FALSE]

\* AdjustRoot: ret is is_deleted.  RemoveAndReturnOnlyChild empties the old root.
AdjustRoot(st, old_root_page) ==
  LET old_root_node == Node(st, old_root_page) IN
  IF ~IsLeafPage(old_root_node) /\ GetSize(old_root_node) = 1
  THEN Bind(SetNode(st, old_root_page, [old_root_node EXCEPT !.array = <<>>]), LAMBDA s1 :
       Bind(SetRoot(s1, ValueAt(old_root_node, 0)), LAMBDA s2 :
       Bind(TreeFetchPage(s2, s2.root_page_id), LAMBDA fetched :
       LET child == fetched.page IN
       Bind(IF IsNode(Node(fetched, child))
            THEN SetNode(fetched, child,
                         [Node(fetched, child) EXCEPT !.parent_page_id = INVALID_PAGE_ID])
            ELSE Ub(fetched), LAMBDA s3 :
       Bind(TreeUnpinPage(s3, s3.root_page_id, TRUE), LAMBDA s4 :
       Bind(UpdateRootPageId(s4, 0), LAMBDA s5 :
         [s5 EXCEPT !.ret = TRUE]))))))
  ELSE IF IsLeafPage(old_root_node) /\ GetSize(old_root_node) = 0
  THEN Bind(SetRoot(st, INVALID_PAGE_ID), LAMBDA s1 :
       Bind(UpdateRootPageId(s1, 0), LAMBDA s2 :
         [s2 EXCEPT !.ret = TRUE]))
  ELSE [st EXCEPT !.ret = FALSE]

\* Redistribute that leaves the separator key of the parent as it was.
Redistribute_Mutant(st, neighbor_page, page, index) ==
  LET node == Node(st, page) IN
  Bind(TreeFetchPage(st, node.parent_page_id), LAMBDA fetched :
  LET parent == fetched.page
      middle_index == IF index = 0 THEN 1 ELSE index
  IN IF \/ ~IsNode(Node(fetched, parent))
        \/ middle_index >= GetSize(Node(fetched, parent))
        \/ GetSize(Node(fetched, neighbor_page)) < 2
     THEN Ub(fetched)
     ELSE
     LET middle_key == KeyAt(Node(fetched, parent), middle_index) IN
     Bind(IF index = 0
          THEN MoveFirstToEndOf(fetched, neighbor_page, page, middle_key)
          ELSE MoveLastToFrontOf(fetched, neighbor_page, page, middle_key), LAMBDA s1 :
     LET new_key == IF index = 0 THEN KeyAt(Node(s1, neighbor_page), 0)
                    ELSE KeyAt(Node(s1, page), 0)
     IN Bind(SetNode(s1, parent, SetKeyAt(Node(s1, parent), middle_index, middle_key)),
             LAMBDA s2 :
          TreeUnpinPage(s2, Node(s2, parent).page_id, TRUE))))

Redistribute(st, neighbor_page, page, index) ==
  LET node == Node(st, page) IN
  Bind(TreeFetchPage(st, node.parent_page_id), LAMBDA fetched :
  LET parent == fetched.page
      middle_index == IF index = 0 THEN 1 ELSE index
  IN IF \/ ~IsNode(Node(fetched, parent))
        \/ middle_index >= GetSize(Node(fetched, parent))
        \/ GetSize(Node(fetched, neighbor_page)) < 2
     THEN Ub(fetched)
     ELSE
     LET middle_key == KeyAt(Node(fetched, parent), middle_index) IN
     Bind(IF index = 0
          THEN MoveFirstToEndOf(fetched, neighbor_page, page, middle_key)
          ELSE MoveLastToFrontOf(fetched, neighbor_page, page, middle_key), LAMBDA s1 :
     LET new_key == IF index = 0 THEN KeyAt(Node(s1, neighbor_page), 0)
                    ELSE KeyAt(Node(s1, page), 0)
     IN Bind(SetNode(s1, parent, SetKeyAt(Node(s1, parent), middle_index, new_key)),
             LAMBDA s2 :
          TreeUnpinPage(s2, Node(s2, parent).page_id, TRUE))))

\* CoalesceOrRedistribute: ret is is_merge (AdjustRoot's result for the root).
\* Coalesce: ret is the result of the call on the parent.
RECURSIVE CoalesceOrRedistribute(_, _), Coalesce(_, _, _, _, _)
CoalesceOrRedistribute(st, page) ==
  LET node == Node(st, page) IN
  IF IsRootPage(node) THEN AdjustRoot(st, page)
  ELSE Bind(TreeFetchPage(st, node.parent_page_id), LAMBDA fetched :
       LET parent == fetched.page IN
       IF ~IsNode(Node(fetched, parent)) THEN Ub(fetched)
       ELSE
       LET index == ValueIndex(Node(fetched, parent), node.page_id)
           sibling_index == IF index > 0 THEN index - 1 ELSE 1
       IN IF sibling_index >= GetSize(Node(fetched, parent)) THEN Ub(fetched)
          ELSE
          Bind(TreeFetchPage(fetched, ValueAt(Node(fetched, parent), sibling_index)),
               LAMBDA s1 :
          LET sibling_page == s1.page IN
          Bind(WLatch(s1, sibling_page), LAMBDA s2 :
          IF ~IsNode(Node(s2, sibling_page)) THEN Ub(s2)
          ELSE
          LET is_merge == GetSize(Node(s2, sibling_page)) + GetSize(node)
                            <= GetMaxSize(node) - 1
          IN Bind(IF is_merge
                  THEN Coalesce(s2, sibling_page, page, parent, index)
                  ELSE Redistribute(s2, sibling_page, page, index), LAMBDA s3 :
             Bind(WUnlatch(s3, sibling_page), LAMBDA s4 :
             Bind(TreeUnpinPage(s4, Node(s4, parent).page_id, TRUE), LAMBDA s5 :
             Bind(TreeUnpinPage(s5, Node(s5, sibling_page).page_id, TRUE), LAMBDA s6 :
               [s6 EXCEPT !.ret = is_merge])))))))

Coalesce(st, neighbor_page, page, parent, index) ==
  LET child == IF index = 0 THEN neighbor_page ELSE page
      neighbor_child == IF index = 0 THEN page ELSE neighbor_page
      middle_index == IF index = 0 THEN 1 ELSE index
  IN IF middle_index >= GetSize(Node(st, parent)) THEN Ub(st)
     ELSE
     LET middle_key == IF ~IsLeafPage(Node(st, child))
                       THEN KeyAt(Node(st, parent), middle_index) ELSE 0
     IN Bind(MoveAllTo(st, child, neighbor_child, middle_key), LAMBDA s1 :
        Bind(TreeUnpinPage(s1, Node(s1, child).page_id, TRUE), LAMBDA s2 :
        Bind(TreeDeletePage(s2, Node(s2, child).page_id), LAMBDA s3 :
        Bind(SetNode(s3, parent, InternalRemove(Node(s3, parent), middle_index)),
             LAMBDA s4 :
          CoalesceOrRedistribute(s4, parent)))))

\* BPlusTree::Remove
TreeRemove(st, key) ==
  Bind(RootLock(st), LAMBDA locked :
    IF IsEmpty(locked) THEN RootUnlock(locked)
    ELSE Bind(FindLeafPage(locked, key, FALSE, "REMOVE"), LAMBDA found :
         LET leaf_page == found.page
             leaf == Node(found, leaf_page)
         IN IF found.ub THEN found
            ELSE
            LET old_size == GetSize(leaf) IN
            Bind(SetNode(found, leaf_page, LeafRemoveAndDeleteRecord(leaf, key)),
                 LAMBDA s1 :
            LET size == GetSize(Node(s1, leaf_page)) IN
            Bind(IF size < GetMinSize(leaf)
                 THEN Bind(CoalesceOrRedistribute(s1, leaf_page), LAMBDA cor :
                        IF cor.ret = TRUE
                        THEN [cor EXCEPT !.deleted_page_set =
                                           @ \cup {Node(cor, leaf_page).page_id}]
                        ELSE cor)
                 ELSE s1, LAMBDA s2 :
            Bind(UnlockAncestors(s2, TRUE), LAMBDA s3 :
            Bind(WUnlatch(s3, leaf_page), LAMBDA s4 :
              TreeUnpinPage(s4, Node(s4, leaf_page).page_id, old_size # size)))))))

(***************************************************************************)
(* The tree's operations as calls of one thread with one transaction.      *)
(***************************************************************************)
Keys == 1..MaxKey

\* Frames enough for every page the calls below allocate: no NewPage returns null.
TreePoolSize == TreeMaxPages + InternalMaxSize

NoTreeOp == [op |-> "none", key |-> 0, ret |-> FALSE, unlatched |-> {},
             root_unguarded |-> FALSE,
   freed_latched |-> {}, unpin_failed |-> {}]

\* No IndexIterator is alive.
NoIterator == [open |-> FALSE, page |-> NullPage, page_id |-> INVALID_PAGE_ID,
               index |-> 0, from_begin |-> FALSE, key |-> 0, out |-> <<>>]

\* No second thread is inside GetValue.
ReaderIdle == [pc |-> "idle", key |-> 0]

\* The test fixture allocates the header page and keeps it pinned.
InitTree ==
  /\ tree = [root_page_id |-> INVALID_PAGE_ID, root_latch |-> FALSE,
             wlatch |-> {}, rlatch |-> {}, page_set |-> <<>>,
             deleted_page_set |-> {}, crashed |-> FALSE, calls |-> 0,
             iter |-> NoIterator, reader |-> ReaderIdle]
  /\ tree_op = NoTreeOp
  /\ contents = <<>>
  /\ insert_order = <<>>

StartCall ==
  [b |-> BeginCall(bpm),
   root_page_id |-> tree.root_page_id, root_latch |-> tree.root_latch,
   wlatch |-> tree.wlatch, rlatch |-> tree.rlatch,
   page_set |-> tree.page_set, deleted_page_set |-> tree.deleted_page_set,
   fresh |-> {}, unlatched |-> {}, root_unguarded |-> FALSE,
   freed_latched |-> {}, unpin_failed |-> {},
   blocked |-> FALSE, ub |-> FALSE, oom |-> FALSE, exception |-> FALSE,
   page |-> NullPage, new_page_id |-> INVALID_PAGE_ID, ret |-> FALSE]

\* The call returns: it did not block and stayed within the page bound.
Return(op, key, st) ==
  /\ ~st.blocked
  /\ ~st.oom
  /\ st.b.next_page_id <= TreeMaxPages
  /\ bpm' = st.b
  /\ tree' = [root_page_id |-> st.root_page_id, root_latch |-> st.root_latch,
              wlatch |-> st.wlatch, rlatch |-> st.rlatch, page_set |-> st.page_set,
              deleted_page_set |-> st.deleted_page_set, crashed |-> st.ub,
              calls |-> tree.calls + 1, iter |-> tree.iter, reader |-> tree.reader]
  /\ tree_op' = [op |-> op, key |-> key, ret |-> st.ret, unlatched |-> st.unlatched,
                 root_unguarded |-> st.root_unguarded,
                 freed_latched |-> st.freed_latched, unpin_failed |-> st.unpin_failed]
  /\ UNCHANGED not_tree_vars

GetValue(key) ==
  /\ ~tree.crashed
  /\ ~tree.iter.open
  /\ tree.calls < MaxCalls
  /\ Return("GetValue", key, TreeGetValue(StartCall, key))
  /\ UNCHANGED <<contents, insert_order>>

\* One call of Insert in a history of any length.
InsertCall(key, value) ==
  /\ ~tree.crashed
  /\ ~tree.iter.open
  /\ Return("Insert", key, TreeInsert(StartCall, key, value))
  /\ contents' = IF key \in DOMAIN contents THEN contents
                 ELSE [k \in DOMAIN contents \cup {key} |->
                         IF k = key THEN value ELSE contents[k]]

Insert(key, value) ==
  /\ tree.calls < MaxCalls
  /\ InsertCall(key, value)
  /\ UNCHANGED insert_order

\* One call of Remove in a history of any length.
RemoveCall(key) ==
  /\ ~tree.crashed
  /\ ~tree.iter.open
  /\ Return("Remove", key, TreeRemove(StartCall, key))
  /\ contents' = [k \in DOMAIN contents \ {key} |-> contents[k]]

Remove(key) ==
  /\ tree.calls < MaxCalls
  /\ RemoveCall(key)
  /\ UNCHANGED insert_order

(***************************************************************************)
(* Index iterator: src/unnamed/part_000 (index_iterator.cpp) with begin,   *)
(* Begin and end of b_plus_tree.cpp.  The caller runs                      *)
(*   for (it = begin(); it != end(); ++it) { read *it; }                   *)
(* tree.iter is the iterator it and tree.iter.out the keys *it gave.       *)
(***************************************************************************)
\* IndexIterator(buffer_pool_manager, page, index)
IndexIterator(st, page, index) ==
  [page |-> page, index |-> index,
   page_id |-> IF page # NullPage THEN PageIdOf(st, page) ELSE INVALID_PAGE_ID]

isEnd(it) == it.page_id = INVALID_PAGE_ID

\* begin(): [st, it]
TreeBegin(st) ==
  Bind(FindLeafPage(st, 0, TRUE, "READ"), LAMBDA found :
    [st |-> found, it |-> IndexIterator(found, found.page, 0)])

\* Begin(key): [st, it]
TreeBeginAt(st, key) ==
  Bind(FindLeafPage(st, key, FALSE, "READ"), LAMBDA found :
    [st |-> found,
     it |-> IndexIterator(found, found.page,
                          IF IsNode(Node(found, found.page))
                          THEN KeyIndex(Node(found, found.page), key) ELSE 0)])

\* operator++ of an iterator that is not at the end: [st, it]
IteratorNext(st, it) ==
  LET leaf == Node(st, it.page) IN
  IF it.index < GetSize(leaf) - 1
  THEN [st |-> st, it |-> [it EXCEPT !.index = @ + 1]]
  ELSE LET old_page == it.page
           page_id == leaf.next_page_id
       IN Bind(IF page_id # INVALID_PAGE_ID
               THEN Bind(TreeFetchPage(st, page_id), LAMBDA fetched :
                      RLatch(fetched, fetched.page))
               ELSE [st EXCEPT !.page = NullPage], LAMBDA s1 :
          Bind(RUnlatch(s1, old_page), LAMBDA s2 :
          Bind(TreeUnpinPage(s2, PageIdOf(s2, old_page), FALSE), LAMBDA s3 :
            [st |-> s3, it |-> [page |-> s1.page, index |-> 0, page_id |-> page_id]])))

\* ~IndexIterator
IteratorDestroy(st, it) ==
  IF isEnd(it) THEN st
  ELSE Bind(RUnlatch(st, it.page), LAMBDA s1 :
         TreeUnpinPage(s1, PageIdOf(s1, it.page), FALSE))

\* What a read of a slot that holds no pair of the leaf can give.
Garbage == {0} \cup Keys

\* A step of the iterator's owner ends: the buffer pool, the latches and the
\* iterator are as the step left them.
IterReturn(st, iter, op, crashed) ==
  /\ ~st.blocked
  /\ ~st.oom
  /\ bpm' = st.b
  /\ tree' = [tree EXCEPT !.root_latch = st.root_latch, !.wlatch = st.wlatch,
                          !.rlatch = st.rlatch, !.crashed = crashed, !.iter = iter,
                          !.calls = IF op.op \in {"begin", "Begin"} \/ crashed
                                    THEN @ + 1 ELSE @]
  /\ tree_op' = op
  /\ UNCHANGED <<contents, insert_order, not_tree_vars>>

IterOp(op, key, ret) ==
  [op |-> op, key |-> key, ret |-> ret, unlatched |-> {}, root_unguarded |-> FALSE,
   freed_latched |-> {}, unpin_failed |-> {}]

\* it = begin().  On a page that holds no node the descent reads garbage: the
\* loop then gives any keys.
IterBegin ==
  /\ ~tree.crashed
  /\ ~tree.iter.open
  /\ tree.calls < MaxCalls
  /\ \E r \in {TreeBegin(StartCall)} :
       IF r.st.ub
       THEN \E k \in Garbage :
              IterReturn(r.st, NoIterator, IterOp("Iterate", 0, <<k>>), TRUE)
       ELSE IterReturn(r.st, [open |-> TRUE, page |-> r.it.page, page_id |-> r.it.page_id,
                               index |-> r.it.index, from_begin |-> TRUE, key |-> 0,
                               out |-> <<>>],
                       IterOp("begin", 0, <<>>), FALSE)

\* it = Begin(key)
IterBeginAt(key) ==
  /\ ~tree.crashed
  /\ ~tree.iter.open
  /\ tree.calls < MaxCalls
  /\ \E r \in {TreeBeginAt(StartCall, key)} :
       IF r.st.ub
       THEN \E k \in Garbage :
              IterReturn(r.st, NoIterator, IterOp("Scan", key, <<k>>), TRUE)
       ELSE IterReturn(r.st, [open |-> TRUE, page |-> r.it.page, page_id |-> r.it.page_id,
                               index |-> r.it.index, from_begin |-> FALSE, key |-> key,
                               out |-> <<>>],
                       IterOp("Begin", key, <<>>), FALSE)

\* it != end(): read *it; ++it
IterStep ==
  /\ ~tree.crashed
  /\ tree.iter.open
  /\ ~isEnd(tree.iter)
  /\ LET it == tree.iter
         leaf == Node(StartCall, it.page)
     IN \E k \in IF it.index < GetSize(leaf) THEN {KeyAt(leaf, it.index)} ELSE Garbage :
        \E r \in {IteratorNext(StartCall, it)} :
          IterReturn(r.st, [it EXCEPT !.page = r.it.page, !.page_id = r.it.page_id,
                                      !.index = r.it.index, !.out = Append(@, k)],
                     IterOp("++", it.key, <<k>>), FALSE)

\* it == end(): the loop ends with the keys it gave, the iterator is destroyed.
IterFinish ==
  /\ ~tree.crashed
  /\ tree.iter.open
  /\ isEnd(tree.iter)
  /\ tree.iter.index = 0
  /\ IterReturn(IteratorDestroy(StartCall, tree.iter), NoIterator,
                IterOp(IF tree.iter.from_begin THEN "Iterate" ELSE "Scan",
                       tree.iter.key, tree.iter.out), FALSE)

\* The owner leaves the loop early: the iterator is destroyed before the end.
IterDrop ==
  /\ ~tree.crashed
  /\ tree.iter.open
  /\ ~isEnd(tree.iter)
  /\ IterReturn(IteratorDestroy(StartCall, tree.iter), NoIterator,
                IterOp("~IndexIterator", tree.iter.key, tree.iter.out), FALSE)

NextTree ==
  \/ \E key \in Keys : GetValue(key)
  \/ \E key \in Keys : Insert(key, key)
  \/ \E key \in Keys : Remove(key)

Values == 1..MaxValue

MapKeys == 1..MaxMapKey

\* The point operations with any value under a key.
NextMap ==
  \/ \E key \in MapKeys : GetValue(key)
  \/ \E key \in MapKeys, value \in Values : Insert(key, value)
  \/ \E key \in MapKeys : Remove(key)

\* Insert and Remove with range scans between them.
NextIter ==
  \/ \E key \in Keys : Insert(key, key)
  \/ \E key \in Keys : Remove(key)
  \/ IterBegin
  \/ \E key \in Keys : IterBeginAt(key)
  \/ IterStep
  \/ IterFinish
  \/ IterDrop

(***************************************************************************)
(* Lock manager: src/unnamed/part_003 (lock_manager.cpp).                  *)
(***************************************************************************)
LockRequest(txn_id, lock_mode) == [txn_id |-> txn_id, lock_mode |-> lock_mode, granted |-> FALSE]

EmptyQueue == [request_queue |-> <<>>, reader_count |-> 0, writer_enter |-> FALSE, upgrading |-> FALSE]

NoCall == [op |-> "none", rid |-> NoRid]

WaitOps == {"LockShared", "LockExclusive", "LockUpgrade"}

IsWaiting(t) == call[t].op \in WaitOps

\* GetRequest: the first request of txn_id in the rid's queue (0 stands for end()).
GetRequest(q, txn_id) ==
  IF \E i \in 1..Len(q) : q[i].txn_id = txn_id
  THEN SetMin({i \in 1..Len(q) : q[i].txn_id = txn_id})
  ELSE 0

\* The reference returned by emplace_back: the last request of txn_id in the queue.
BackRequest(q, txn_id) == SetMax({i \in 1..Len(q) : q[i].txn_id = txn_id})

\* cv_.notify_all() on the rid's queue: every thread sleeping on it becomes runnable.
NotifyAll(w, r) == [u \in AllTxns |-> IF IsWaiting(u) /\ call[u].rid = r THEN TRUE ELSE w[u]]

\* A shared-lock wait that takes no notice of the writer.
SharedWaitPred_Mutant(queue, t) == queue.reader_count >= 0

\* The predicate of cv_.wait in LockShared.
SharedWaitPred(queue, t) == ~queue.writer_enter \/ txn_state[t] = "ABORTED"

\* The predicate of cv_.wait in LockExclusive and LockUpgrade.
\* The wait predicate of LockExclusive without the reader count.
ExclusiveWaitPred_Mutant(queue, t) ==
  ~queue.writer_enter \/ txn_state[t] = "ABORTED"

ExclusiveWaitPred(queue, t) ==
  (~queue.writer_enter /\ queue.reader_count = 0) \/ txn_state[t] = "ABORTED"

\* throw TransactionAbortException(txn_id, reason)
Throw(t, r, reason) ==
  /\ call' = [call EXCEPT ![t] = [op |-> "thrown", rid |-> r]]
  /\ abort_reason' = [abort_reason EXCEPT ![t] = reason]

\* CheckShrinking that raises without txn->SetState(ABORTED).
CheckShrinking_Mutant(t, r) ==
  /\ UNCHANGED txn_state
  /\ Throw(t, r, "LOCK_ON_SHRINKING")

\* CheckShrinking, when it raises.
CheckShrinking(t, r) ==
  /\ txn_state' = [txn_state EXCEPT ![t] = "ABORTED"]
  /\ Throw(t, r, "LOCK_ON_SHRINKING")

\* LockShared after cv_.wait returned, on the lock table lt.
AfterWaitShared(t, r, lt) ==
  LET i == BackRequest(lt[r].request_queue, t) IN
  IF txn_state[t] = "ABORTED"
  THEN /\ Throw(t, r, "DEADLOCK")
       /\ lock_table' = lt
       /\ UNCHANGED <<txn_state, shared_lock_set, exclusive_lock_set>>
  ELSE /\ lock_table' = [lt EXCEPT ![r].reader_count = @ + 1,
                                   ![r].request_queue[i].granted = TRUE]
       /\ shared_lock_set' = [shared_lock_set EXCEPT ![t] = @ \cup {r}]
       /\ call' = [call EXCEPT ![t] = NoCall]
       /\ UNCHANGED <<txn_state, exclusive_lock_set, abort_reason>>

\* LockExclusive after cv_.wait returned.
AfterWaitExclusive(t, r, lt) ==
  LET i == BackRequest(lt[r].request_queue, t) IN
  IF txn_state[t] = "ABORTED"
  THEN /\ Throw(t, r, "DEADLOCK")
       /\ lock_table' = lt
       /\ UNCHANGED <<txn_state, shared_lock_set, exclusive_lock_set>>
  ELSE /\ lock_table' = [lt EXCEPT ![r].writer_enter = TRUE,
                                   ![r].request_queue[i].granted = TRUE]
       /\ exclusive_lock_set' = [exclusive_lock_set EXCEPT ![t] = @ \cup {r}]
       /\ call' = [call EXCEPT ![t] = NoCall]
       /\ UNCHANGED <<txn_state, shared_lock_set, abort_reason>>

\* LockUpgrade after cv_.wait returned.
AfterWaitUpgrade(t, r, lt) ==
  LET i == GetRequest(lt[r].request_queue, t) IN
  IF txn_state[t] = "ABORTED"
  THEN /\ Throw(t, r, "DEADLOCK")
       /\ lock_table' = lt
       /\ UNCHANGED <<txn_state, exclusive_lock_set>>
  ELSE /\ lock_table' = [lt EXCEPT ![r].upgrading = FALSE,
                                   ![r].writer_enter = TRUE,
                                   ![r].request_queue[i].granted = TRUE]
       /\ exclusive_lock_set' = [exclusive_lock_set EXCEPT ![t] = @ \cup {r}]
       /\ call' = [call EXCEPT ![t] = NoCall]
       /\ UNCHANGED <<txn_state, abort_reason>>

\* The thread of t goes to sleep in cv_.wait of call op on rid r.
Sleep(t, r, op, lt) ==
  /\ lock_table' = lt
  /\ call' = [call EXCEPT ![t] = [op |-> op, rid |-> r]]
  /\ woken' = [woken EXCEPT ![t] = FALSE]

\* The body of LockShared under latch_.
LockSharedImpl(t, r) ==
  /\ call[t].op = "none"
  /\ UNCHANGED <<isolation, has_unlocked>>
  /\ IF txn_state[t] = "SHRINKING"
     THEN /\ CheckShrinking(t, r)
          /\ UNCHANGED <<lock_table, shared_lock_set, exclusive_lock_set, woken>>
     ELSE IF r \in shared_lock_set[t]
     THEN UNCHANGED <<lock_table, txn_state, shared_lock_set, exclusive_lock_set,
                      call, woken, abort_reason>>
     ELSE IF isolation[t] = "READ_UNCOMMITTED"
     THEN /\ txn_state' = [txn_state EXCEPT ![t] = "ABORTED"]
          /\ Throw(t, r, "LOCKSHARED_ON_READ_UNCOMMITTED")
          /\ UNCHANGED <<lock_table, shared_lock_set, exclusive_lock_set, woken>>
     ELSE LET lt == [lock_table EXCEPT ![r].request_queue =
                                         Append(@, LockRequest(t, "SHARED"))] IN
          IF SharedWaitPred(lt[r], t)
          THEN AfterWaitShared(t, r, lt) /\ UNCHANGED woken
          ELSE /\ Sleep(t, r, "LockShared", lt)
               /\ UNCHANGED <<txn_state, shared_lock_set, exclusive_lock_set, abort_reason>>

LockShared(t, r) ==
  /\ UNCHANGED not_lm_vars
  /\ LockSharedImpl(t, r)

\* The body of LockExclusive under latch_.
LockExclusiveImpl(t, r) ==
  /\ call[t].op = "none"
  /\ UNCHANGED <<isolation, has_unlocked>>
  /\ IF txn_state[t] = "SHRINKING"
     THEN /\ CheckShrinking(t, r)
          /\ UNCHANGED <<lock_table, shared_lock_set, exclusive_lock_set, woken>>
     ELSE IF r \in exclusive_lock_set[t]
     THEN UNCHANGED <<lock_table, txn_state, shared_lock_set, exclusive_lock_set,
                      call, woken, abort_reason>>
     ELSE LET lt == [lock_table EXCEPT ![r].request_queue =
                                         Append(@, LockRequest(t, "EXCLUSIVE"))] IN
          IF ExclusiveWaitPred(lt[r], t)
          THEN AfterWaitExclusive(t, r, lt) /\ UNCHANGED woken
          ELSE /\ Sleep(t, r, "LockExclusive", lt)
               /\ UNCHANGED <<txn_state, shared_lock_set, exclusive_lock_set, abort_reason>>

LockExclusive(t, r) ==
  /\ UNCHANGED not_lm_vars
  /\ LockExclusiveImpl(t, r)

\* The body of LockUpgrade under latch_.  The executors call it only when
\* txn->IsSharedLocked(rid) (delete_executor.cpp:35).
LockUpgradeImpl(t, r) ==
  /\ call[t].op = "none"
  /\ r \in shared_lock_set[t]
  /\ UNCHANGED <<isolation, has_unlocked>>
  /\ shared_lock_set' = [shared_lock_set EXCEPT ![t] = @ \ {r}]
  /\ LET i  == GetRequest(lock_table[r].request_queue, t)
         lt == [lock_table EXCEPT ![r].reader_count = @ - 1,
                                  ![r].request_queue[i].lock_mode = "EXCLUSIVE",
                                  ![r].request_queue[i].granted = FALSE]
     IN IF lt[r].upgrading
        THEN /\ txn_state' = [txn_state EXCEPT ![t] = "ABORTED"]
             /\ Throw(t, r, "UPGRADE_CONFLICT")
             /\ lock_table' = lt
             /\ UNCHANGED <<exclusive_lock_set, woken>>
        ELSE LET lu == [lt EXCEPT ![r].upgrading = TRUE] IN
             IF ExclusiveWaitPred(lu[r], t)
             THEN AfterWaitUpgrade(t, r, lu) /\ UNCHANGED woken
             ELSE /\ Sleep(t, r, "LockUpgrade", lu)
                  /\ UNCHANGED <<txn_state, exclusive_lock_set, abort_reason>>

LockUpgrade(t, r) ==
  /\ UNCHANGED not_lm_vars
  /\ LockUpgradeImpl(t, r)

\* A sleeping thread that was notified re-acquires latch_ and re-evaluates its predicate.
Wake(t) ==
  /\ UNCHANGED not_lm_vars
  /\ IsWaiting(t)
  /\ woken[t]
  /\ UNCHANGED <<isolation, has_unlocked>>
  /\ LET r == call[t].rid
         ok == IF call[t].op = "LockShared"
               THEN SharedWaitPred(lock_table[r], t)
               ELSE ExclusiveWaitPred(lock_table[r], t)
     IN IF ~ok
        THEN /\ woken' = [woken EXCEPT ![t] = FALSE]
             /\ UNCHANGED <<lock_table, txn_state, shared_lock_set, exclusive_lock_set,
                            call, abort_reason>>
        ELSE /\ woken' = [woken EXCEPT ![t] = FALSE]
             /\ IF call[t].op = "LockShared" THEN AfterWaitShared(t, r, lock_table)
                ELSE IF call[t].op = "LockExclusive" THEN AfterWaitExclusive(t, r, lock_table)
                ELSE AfterWaitUpgrade(t, r, lock_table) /\ UNCHANGED shared_lock_set

\* std::condition_variable permits a wait to return without a notification.
SpuriousWake(t) ==
  /\ UNCHANGED not_lm_vars
  /\ IsWaiting(t)
  /\ ~woken[t]
  /\ woken' = [woken EXCEPT ![t] = TRUE]
  /\ UNCHANGED <<lock_table, txn_state, isolation, shared_lock_set, exclusive_lock_set,
                 call, abort_reason, has_unlocked>>

\* Unlock that applies two-phase locking at every isolation level.
UnlockImpl_Mutant(t, r) ==
  /\ GetRequest(lock_table[r].request_queue, t) # 0
  /\ LET q == lock_table[r].request_queue
         i == GetRequest(q, t)
         lock_mode == q[i].lock_mode
         erased == [lock_table EXCEPT ![r].request_queue = RemoveAt(q, i)]
     IN /\ shared_lock_set' = [shared_lock_set EXCEPT ![t] = @ \ {r}]
        /\ exclusive_lock_set' = [exclusive_lock_set EXCEPT ![t] = @ \ {r}]
        /\ txn_state' = IF txn_state[t] = "GROWING"
                        THEN [txn_state EXCEPT ![t] = "SHRINKING"]
                        ELSE txn_state
        /\ IF lock_mode = "SHARED"
           THEN /\ lock_table' = [erased EXCEPT ![r].reader_count = @ - 1]
                /\ woken' = IF lock_table[r].reader_count - 1 = 0
                            THEN NotifyAll(woken, r) ELSE woken
           ELSE /\ lock_table' = [erased EXCEPT ![r].writer_enter = FALSE]
                /\ woken' = NotifyAll(woken, r)
        /\ has_unlocked' = [has_unlocked EXCEPT ![t] = TRUE]
        /\ UNCHANGED <<isolation, call, abort_reason>>

\* The body of Unlock under latch_, for a transaction that has a request in the
\* rid's queue.
UnlockImpl(t, r) ==
  /\ GetRequest(lock_table[r].request_queue, t) # 0
  /\ LET q == lock_table[r].request_queue
         i == GetRequest(q, t)
         lock_mode == q[i].lock_mode
         erased == [lock_table EXCEPT ![r].request_queue = RemoveAt(q, i)]
     IN /\ shared_lock_set' = [shared_lock_set EXCEPT ![t] = @ \ {r}]
        /\ exclusive_lock_set' = [exclusive_lock_set EXCEPT ![t] = @ \ {r}]
        /\ txn_state' = IF /\ txn_state[t] = "GROWING"
                           /\ ~(lock_mode = "SHARED" /\ isolation[t] = "READ_COMMITTED")
                        THEN [txn_state EXCEPT ![t] = "SHRINKING"]
                        ELSE txn_state
        /\ IF lock_mode = "SHARED"
           THEN /\ lock_table' = [erased EXCEPT ![r].reader_count = @ - 1]
                /\ woken' = IF lock_table[r].reader_count - 1 = 0
                            THEN NotifyAll(woken, r) ELSE woken
           ELSE /\ lock_table' = [erased EXCEPT ![r].writer_enter = FALSE]
                /\ woken' = NotifyAll(woken, r)
        /\ has_unlocked' = [has_unlocked EXCEPT ![t] = TRUE]
        /\ UNCHANGED <<isolation, call, abort_reason>>

\* Unlock as the transaction manager calls it on commit and abort: for the rids of
\* the transaction's lock sets.
Unlock(t, r) ==
  /\ UNCHANGED not_lm_vars
  /\ call[t].op \in {"none", "thrown"}
  /\ r \in shared_lock_set[t] \cup exclusive_lock_set[t]
  /\ UnlockImpl(t, r)

(***************************************************************************)
(* Deadlock detection.                                                     *)
(***************************************************************************)
\* The number of leading granted requests of a queue (RunCycleDetection's first loop).
GrantedPrefix(q) ==
  CHOOSE k \in 0..Len(q) : /\ \A i \in 1..k : q[i].granted
                           /\ (k = Len(q) \/ ~q[k + 1].granted)

EmptyGraph == [waits_for |-> [t \in AllTxns |-> {}], wait_rids |-> [t \in AllTxns |-> NoRid], txns |-> {}]

\* AddEdge(t1, t2) for every request t1 behind the granted prefix and every t2 in it;
\* wait_rids_[t1] = rid.  waits_for_[t1] is a vector without duplicates that DFS sorts
\* before it reads it: a set read in ascending order.
AddQueue(g, rid) ==
  LET q == lock_table[rid].request_queue
      k == GrantedPrefix(q)
      grants == {q[i].txn_id : i \in 1..k}
      rest == {q[i].txn_id : i \in (k + 1)..Len(q)}
  IN [waits_for |-> [t \in AllTxns |-> IF t \in rest THEN g.waits_for[t] \cup grants
                                    ELSE g.waits_for[t]],
      wait_rids |-> [t \in AllTxns |-> IF t \in rest THEN rid ELSE g.wait_rids[t]],
      txns |-> IF rest # {} /\ grants # {} THEN g.txns \cup rest \cup grants ELSE g.txns]

RECURSIVE BuildGraph(_, _, _)
BuildGraph(order, i, g) ==
  IF i > Len(order) THEN g
  ELSE Only({BuildGraph(order, i + 1, g2) : g2 \in {AddQueue(g, order[i])}})

RECURSIVE DFS(_, _, _), DFSNeighbors(_, _, _, _)
DFS(waits_for, txn_id, st) ==
  IF st.has_cycle THEN st
  ELSE Only({IF r.returned THEN r.st ELSE [r.st EXCEPT !.on_stack = @ \ {txn_id}] :
               r \in {DFSNeighbors(waits_for, SortedSeq(waits_for[txn_id]), 1,
                                   [st EXCEPT !.on_stack = @ \cup {txn_id}])}})

DFSNeighbors(waits_for, neighbors, i, st) ==
  IF i > Len(neighbors) THEN [st |-> st, returned |-> FALSE]
  ELSE IF neighbors[i] \notin st.on_stack
  THEN Only({DFSNeighbors(waits_for, neighbors, i + 1, s2) :
               s2 \in {DFS(waits_for, neighbors[i], st)}})
  ELSE [st |-> [st EXCEPT !.has_cycle = TRUE], returned |-> TRUE]

\* HasCycle: DFS from every vertex of txns_ in ascending order; the victim is
\* *on_stack_txns_.rbegin().
RECURSIVE HasCycleFrom(_, _, _, _)
HasCycleFrom(waits_for, starts, i, st) ==
  IF i > Len(starts) THEN [found |-> FALSE, txn_id |-> 0]
  ELSE Only({IF s.has_cycle THEN [found |-> TRUE, txn_id |-> SetMax(s.on_stack)]
             ELSE HasCycleFrom(waits_for, starts, i + 1, s) :
               s \in {DFS(waits_for, starts[i], st)}})

\* HasCycle that starts the search from the youngest transaction.
HasCycle_Mutant(waits_for, txns) ==
  LET starts == SortedSeq(txns) IN
  HasCycleFrom(waits_for, [i \in 1..Len(starts) |-> starts[Len(starts) + 1 - i]], 1,
               [on_stack |-> {}, has_cycle |-> FALSE])

HasCycle(waits_for, txns) ==
  HasCycleFrom(waits_for, SortedSeq(txns), 1, [on_stack |-> {}, has_cycle |-> FALSE])

\* AbortTransaction's change of the graph: waits_for_.erase(txn_id) and RemoveEdge(req, txn_id)
\* for the ungranted requests on the rids of the victim's lock sets.
AbortTransaction(waits_for, txn_id) ==
  LET held == exclusive_lock_set[txn_id] \cup shared_lock_set[txn_id]
      waiters == UNION {{lock_table[r].request_queue[i].txn_id :
                           i \in {j \in 1..Len(lock_table[r].request_queue) :
                                    ~lock_table[r].request_queue[j].granted}} : r \in held}
  IN [t \in AllTxns |-> IF t = txn_id THEN {}
                     ELSE IF t \in waiters THEN waits_for[t] \ {txn_id}
                     ELSE waits_for[t]]

\* while (HasCycle(&txn_id)) AbortTransaction(txn_id);  The result is the set of victims.
RECURSIVE AbortCycles(_, _, _)
AbortCycles(waits_for, txns, victims) ==
  Only({IF ~c.found THEN victims
        ELSE Only({AbortCycles(w2, txns, victims \cup {c.txn_id}) :
                     w2 \in {AbortTransaction(waits_for, c.txn_id)}}) :
          c \in {HasCycle(waits_for, txns)}})

\* The victims of one detector pass that reads the queues in the given order, and the
\* rids whose condition variables AbortTransaction notifies.
DetectorPass(order) ==
  Only({Only({[victims |-> v, notified |-> {g.wait_rids[x] : x \in v}] :
                v \in {AbortCycles(g.waits_for, g.txns, {})}}) :
          g \in {BuildGraph(order, 1, EmptyGraph)}})

\* One pass of RunCycleDetection under latch_.  lock_table_ is an unordered map: the
\* order in which its queues are read is not fixed.  An empty queue adds no edge
\* and no wait_rids_ entry: the orders are those of the queues that hold a request.
RunCycleDetection ==
  \E order \in Perms({r \in AllRids : lock_table[r].request_queue # <<>>}) :
    \E pass \in {DetectorPass(order)} :
       /\ pass.victims # {}
       /\ txn_state' = [t \in AllTxns |-> IF t \in pass.victims THEN "ABORTED" ELSE txn_state[t]]
       /\ woken' = [u \in AllTxns |-> IF IsWaiting(u) /\ call[u].rid \in pass.notified
                                   THEN TRUE ELSE woken[u]]
       /\ UNCHANGED <<lock_table, isolation, shared_lock_set, exclusive_lock_set,
                      call, abort_reason, has_unlocked>>
       /\ UNCHANGED not_lm_vars

InitLM ==
  /\ lock_table = [r \in AllRids |-> EmptyQueue]
  /\ txn_state = [t \in AllTxns |-> "GROWING"]
  /\ isolation \in {f \in [AllTxns -> IsolationLevels] :
                     \A t \in AllTxns \ Txns : f[t] = "REPEATABLE_READ"}
  /\ shared_lock_set = [t \in AllTxns |-> {}]
  /\ exclusive_lock_set = [t \in AllTxns |-> {}]
  /\ call = [t \in AllTxns |-> NoCall]
  /\ woken = [t \in AllTxns |-> FALSE]
  /\ abort_reason = [t \in AllTxns |-> "NONE"]
  /\ has_unlocked = [t \in AllTxns |-> FALSE]

NextLM ==
  \/ \E t \in Txns, r \in Rids : LockShared(t, r)
  \/ \E t \in Txns, r \in Rids : LockExclusive(t, r)
  \/ \E t \in Txns, r \in Rids : LockUpgrade(t, r)
  \/ \E t \in Txns, r \in Rids : Unlock(t, r)
  \/ \E t \in Txns : Wake(t)
  \/ \E t \in Txns : SpuriousWake(t)
  \/ RunCycleDetection

(***************************************************************************)
(* Sequential scan: src/src/execution/seq_scan_executor.cpp.  One pass     *)
(* of the loop of SeqScanExecutor::Next visits the rid under the table     *)
(* iterator; the rid is any rid of the table.                              *)
(***************************************************************************)
ScanIdle == [pc |-> "idle", rid |-> NoRid]

\* A scan that takes the shared lock only under READ_COMMITTED.
SeqScanLock_Mutant(t, r) ==
  /\ scan[t].pc = "idle"
  /\ call[t].op = "none"
  /\ scan' = [scan EXCEPT ![t] = [pc |-> "locked", rid |-> r]]
  /\ IF isolation[t] = "READ_COMMITTED" /\ r \notin exclusive_lock_set[t]
     THEN LockSharedImpl(t, r)
     ELSE UNCHANGED lm_vars
  /\ UNCHANGED <<bpm_vars, tree_vars, rest_vars>>

\* Lines 76-81: the rid is read and, unless the transaction is READ_UNCOMMITTED or
\* holds the exclusive lock, LockShared is called (it may sleep or raise).
SeqScanLock(t, r) ==
  /\ scan[t].pc = "idle"
  /\ call[t].op = "none"
  /\ scan' = [scan EXCEPT ![t] = [pc |-> "locked", rid |-> r]]
  /\ IF isolation[t] # "READ_UNCOMMITTED" /\ r \notin exclusive_lock_set[t]
     THEN LockSharedImpl(t, r)
     ELSE UNCHANGED lm_vars
  /\ UNCHANGED <<bpm_vars, tree_vars, rest_vars>>

\* Lines 83-99 with SeqScanExecutor::Unlock (65-69): the tuple is read and the
\* predicate evaluated, then under READ_COMMITTED LockManager::Unlock is called.
SeqScanUnlock(t) ==
  /\ scan[t].pc = "locked"
  /\ call[t].op = "none"
  /\ scan' = [scan EXCEPT ![t] = ScanIdle]
  /\ IF isolation[t] = "READ_COMMITTED"
     THEN UnlockImpl(t, scan[t].rid)
     ELSE UNCHANGED lm_vars
  /\ UNCHANGED <<bpm_vars, tree_vars, rest_vars>>

\* The exception of LockShared leaves SeqScanExecutor::Next.
SeqScanThrown(t) ==
  /\ scan[t].pc = "locked"
  /\ call[t].op = "thrown"
  /\ scan' = [scan EXCEPT ![t] = ScanIdle]
  /\ UNCHANGED <<lm_vars, bpm_vars, tree_vars, rest_vars>>

InitExec == scan = [t \in Txns |-> ScanIdle]

(***************************************************************************)
(* Catalog.  catalog.h is not among the source files; its calls are those  *)
(* of src/test/catalog/catalog_test.cpp and its maps follow the            *)
(* specification: a table entry is found by name through names_ and by oid *)
(* through tables_, an index entry by oid through indexes_ and by index    *)
(* name and table name through index_names_.  A lookup that raises         *)
(* std::out_of_range has ok = FALSE.  A schema is an opaque value.         *)
(***************************************************************************)
TableNames == {"potato", "tomato"}

IndexNames == {"index", "index_b"}

Schemas == 1..MaxSchema

NoTable == [name |-> "", oid |-> -1, schema |-> 0]

NoIndexInfo == [name |-> "", table_name |-> "", index_oid |-> -1, key_schema |-> 0]

\* Catalog::Catalog
Catalog ==
  [tables |-> <<>>, names |-> <<>>, indexes |-> <<>>, index_names |-> <<>>,
   next_table_oid |-> 0, next_index_oid |-> 0]

\* map[key] = value
MapSet(map, key, value) ==
  [k \in DOMAIN map \cup {key} |-> IF k = key THEN value ELSE map[k]]

\* CreateTable that hands out the same oid again.
CatalogCreateTable_Mutant(c, table_name, schema) ==
  LET table_oid == c.next_table_oid
      entry == [name |-> table_name, oid |-> table_oid, schema |-> schema]
  IN [entry |-> entry,
      c |-> [c EXCEPT !.names = MapSet(@, table_name, table_oid),
                      !.tables = MapSet(@, table_oid, entry)]]

\* Catalog::CreateTable: [entry, c]
CatalogCreateTable(c, table_name, schema) ==
  LET table_oid == c.next_table_oid
      entry == [name |-> table_name, oid |-> table_oid, schema |-> schema]
  IN [entry |-> entry,
      c |-> [c EXCEPT !.next_table_oid = @ + 1,
                      !.names = MapSet(@, table_name, table_oid),
                      !.tables = MapSet(@, table_oid, entry)]]

\* Catalog::GetTable(table_oid_t): tables_.at(table_oid)
CatalogGetTableByOid(c, table_oid) ==
  IF table_oid \in DOMAIN c.tables
  THEN [ok |-> TRUE, entry |-> c.tables[table_oid]]
  ELSE [ok |-> FALSE, entry |-> NoTable]

\* Catalog::GetTable(const std::string &): names_.at(table_name), then the oid
CatalogGetTable(c, table_name) ==
  IF table_name \in DOMAIN c.names
  THEN CatalogGetTableByOid(c, c.names[table_name])
  ELSE [ok |-> FALSE, entry |-> NoTable]

\* Catalog::CreateIndex: [entry, c]
CatalogCreateIndex(c, index_name, table_name, key_schema) ==
  LET index_oid == c.next_index_oid
      entry == [name |-> index_name, table_name |-> table_name,
                index_oid |-> index_oid, key_schema |-> key_schema]
      of_table == IF table_name \in DOMAIN c.index_names
                  THEN c.index_names[table_name] ELSE <<>>
  IN [entry |-> entry,
      c |-> [c EXCEPT !.next_index_oid = @ + 1,
                      !.index_names = MapSet(@, table_name,
                                             MapSet(of_table, index_name, index_oid)),
                      !.indexes = MapSet(@, index_oid, entry)]]

\* Catalog::GetIndex(index_oid_t): indexes_.at(index_oid)
CatalogGetIndexByOid(c, index_oid) ==
  IF index_oid \in DOMAIN c.indexes
  THEN [ok |-> TRUE, entry |-> c.indexes[index_oid]]
  ELSE [ok |-> FALSE, entry |-> NoIndexInfo]

\* Catalog::GetIndex(index_name, table_name): index_names_.at(table_name).at(index_name)
CatalogGetIndex(c, index_name, table_name) ==
  IF table_name \in DOMAIN c.index_names /\ index_name \in DOMAIN c.index_names[table_name]
  THEN CatalogGetIndexByOid(c, c.index_names[table_name][index_name])
  ELSE [ok |-> FALSE, entry |-> NoIndexInfo]

\* The record of a catalog call.
CatalogOp(op, name, table_name, oid, ok, table, index_info) ==
  [op |-> op, name |-> name, table_name |-> table_name, oid |-> oid,
   ok |-> ok, table |-> table, index_info |-> index_info]

\* Table names are unique: a name is created once.
CreateTable(table_name, schema) ==
  /\ UNCHANGED not_catalog_vars
  /\ table_name \notin DOMAIN catalog.names
  /\ LET r == CatalogCreateTable(catalog, table_name, schema) IN
     /\ catalog' = r.c
     /\ catalog_op' = CatalogOp("CreateTable", "", table_name, r.entry.oid, TRUE,
                                r.entry, NoIndexInfo)
     /\ catalog_log' = [catalog_log EXCEPT !.tables = @ \cup {r.entry}]

GetTable(table_name) ==
  /\ UNCHANGED not_catalog_vars
  /\ LET r == CatalogGetTable(catalog, table_name) IN
     catalog_op' = CatalogOp("GetTable", "", table_name, -1, r.ok, r.entry, NoIndexInfo)
  /\ UNCHANGED <<catalog, catalog_log>>

GetTableByOid(table_oid) ==
  /\ UNCHANGED not_catalog_vars
  /\ LET r == CatalogGetTableByOid(catalog, table_oid) IN
     catalog_op' = CatalogOp("GetTableByOid", "", "", table_oid, r.ok, r.entry, NoIndexInfo)
  /\ UNCHANGED <<catalog, catalog_log>>

\* An index is created on a table of the catalog, under a name that is new for the table.
CreateIndex(index_name, table_name, key_schema) ==
  /\ UNCHANGED not_catalog_vars
  /\ table_name \in DOMAIN catalog.names
  /\ ~CatalogGetIndex(catalog, index_name, table_name).ok
  /\ LET r == CatalogCreateIndex(catalog, index_name, table_name, key_schema) IN
     /\ catalog' = r.c
     /\ catalog_op' = CatalogOp("CreateIndex", index_name, table_name, r.entry.index_oid,
                                TRUE, NoTable, r.entry)
     /\ catalog_log' = [catalog_log EXCEPT !.indexes = @ \cup {r.entry}]

GetIndex(index_name, table_name) ==
  /\ UNCHANGED not_catalog_vars
  /\ LET r == CatalogGetIndex(catalog, index_name, table_name) IN
     catalog_op' = CatalogOp("GetIndex", index_name, table_name, -1, r.ok, NoTable, r.entry)
  /\ UNCHANGED <<catalog, catalog_log>>

GetIndexByOid(index_oid) ==
  /\ UNCHANGED not_catalog_vars
  /\ LET r == CatalogGetIndexByOid(catalog, index_oid) IN
     catalog_op' = CatalogOp("GetIndexByOid", "", "", index_oid, r.ok, NoTable, r.entry)
  /\ UNCHANGED <<catalog, catalog_log>>

InitCatalog ==
  /\ catalog = Catalog
  /\ catalog_op = CatalogOp("none", "", "", -1, TRUE, NoTable, NoIndexInfo)
  /\ catalog_log = [tables |-> {}, indexes |-> {}]

\* The oids a caller may hold: those handed out and the next one.
TableOids == 0..catalog.next_table_oid

IndexOids == 0..catalog.next_index_oid

NextCatalog ==
  \/ \E table_name \in TableNames, schema \in Schemas : CreateTable(table_name, schema)
  \/ \E table_name \in TableNames : GetTable(table_name)
  \/ \E table_oid \in TableOids : GetTableByOid(table_oid)
  \/ \E index_name \in IndexNames, table_name \in TableNames, key_schema \in Schemas :
       CreateIndex(index_name, table_name, key_schema)
  \/ \E index_name \in IndexNames, table_name \in TableNames : GetIndex(index_name, table_name)
  \/ \E index_oid \in IndexOids : GetIndexByOid(index_oid)

(***************************************************************************)
(* Hash aggregation: src/unnamed/part_007 (aggregation_executor.cpp).      *)
(* The child produces tuples <<group, value>>; the plan groups by the      *)
(* first column and computes count, sum, min and max of the second; its    *)
(* HAVING, if any, is sum >= bound.  SimpleAggregationHashTable is not     *)
(* among the source files: aht_ is a function from group keys to partial   *)
(* aggregates, updated in place as the specification says, and iterated in *)
(* one fixed order of the keys it holds (ascending here).                  *)
(***************************************************************************)
ChildTuples == (1..MaxGroup) \X (1..MaxAggValue)

NoHaving == 0

\* GenerateInitialAggregateValue
InitialAggregateValue ==
  [count |-> 0, sum |-> 0, min |-> 2147483647, max |-> -2147483647]

\* CombineAggregateValues
CombineAggregateValues(result, input) ==
  [count |-> result.count + 1,
   sum |-> result.sum + input,
   min |-> IF input < result.min THEN input ELSE result.min,
   max |-> IF input > result.max THEN input ELSE result.max]

\* aht_.InsertCombine(MakeKey(&tuple), MakeVal(&tuple))
InsertCombine(ht, tuple) ==
  LET key == tuple[1]
      old == IF key \in DOMAIN ht THEN ht[key] ELSE InitialAggregateValue
  IN [k \in DOMAIN ht \cup {key} |->
        IF k = key THEN CombineAggregateValues(old, tuple[2]) ELSE ht[k]]

\* The loop of Init over the child's tuples from position i on.
RECURSIVE DrainChild(_, _, _)
DrainChild(ht, child, i) ==
  IF i > Len(child) THEN ht
  ELSE DrainChild(InsertCombine(ht, child[i]), child, i + 1)

\* The entries of aht_ in the order of its iterator.
Entries(ht) == SortedSeq(DOMAIN ht)

\* having->EvaluateAggregate(group_bys, aggregates)
Having(bound, aggregates) == bound = NoHaving \/ aggregates.sum >= bound

\* The output tuple of an entry: the group and its aggregates.
OutputTuple(key, aggregates) ==
  [group |-> key, count |-> aggregates.count, sum |-> aggregates.sum,
   min |-> aggregates.min, max |-> aggregates.max]

\* AggregationExecutor::AggregationExecutor: aht_ is constructed here, empty.
AggregationExecutor(child, having) ==
  [child |-> child, having |-> having, aht |-> <<>>, aht_iterator |-> 1]

\* AggregationExecutor::Init
AggregationInit(e) ==
  [e EXCEPT !.aht = DrainChild(e.aht, e.child, 1), !.aht_iterator = 1]

\* AggregationExecutor::Next: [ok, tuple, e]
RECURSIVE AggregationNext(_)
AggregationNext(e) ==
  LET entries == Entries(e.aht) IN
  IF e.aht_iterator > Len(entries)
  THEN [ok |-> FALSE, tuple |-> <<>>, e |-> e]
  ELSE LET key == entries[e.aht_iterator]
           aggregates == e.aht[key]
           advanced == [e EXCEPT !.aht_iterator = @ + 1]
       IN IF Having(e.having, aggregates)
          THEN [ok |-> TRUE, tuple |-> OutputTuple(key, aggregates), e |-> advanced]
          ELSE AggregationNext(advanced)

NoLog == [inits |-> 0, done |-> FALSE, out |-> <<>>, first |-> <<>>, first_done |-> FALSE]

\* Init() as the parent calls it: the execution engine once, a nested-loop
\* join on every advance of its outer input (part_006 lines 27 and 55).
CallInit ==
  /\ UNCHANGED not_agg_vars
  /\ aggregation_log.inits < MaxInits
  /\ aggregation_log.inits > 0 => aggregation_log.done
  /\ aggregation' = AggregationInit(aggregation)
  /\ aggregation_log' = [aggregation_log EXCEPT !.inits = @ + 1, !.done = FALSE, !.out = <<>>]

\* Next() as the parent calls it until it returns false.
CallNext ==
  /\ UNCHANGED not_agg_vars
  /\ aggregation_log.inits > 0
  /\ ~aggregation_log.done
  /\ LET r == AggregationNext(aggregation)
         out == IF r.ok THEN Append(aggregation_log.out, r.tuple) ELSE aggregation_log.out
         first_drain == ~r.ok /\ ~aggregation_log.first_done
     IN /\ aggregation' = r.e
        /\ aggregation_log' = [aggregation_log EXCEPT
                                 !.done = ~r.ok,
                                 !.out = out,
                                 !.first = IF first_drain THEN out ELSE @,
                                 !.first_done = @ \/ first_drain]

\* One executor, not yet initialised, over the empty child.
InitAgg ==
  /\ aggregation = AggregationExecutor(<<>>, NoHaving)
  /\ aggregation_log = NoLog

\* The executors over every child output and every HAVING bound.
InitAggAny ==
  /\ \E n \in 0..MaxRows, having \in 0..(MaxAggValue + 1) :
       \E child \in [1..n -> ChildTuples] :
         aggregation = AggregationExecutor(child, having)
  /\ aggregation_log = NoLog

NextAgg == CallInit \/ CallNext

(***************************************************************************)
(* Delete and update: src/src/execution/delete_executor.cpp (lines 28-55)  *)
(* and src/unnamed/part_005 (update_executor.cpp).  The table heap and the *)
(* index are not among the source files: a heap tuple is one column value  *)
(* and a delete mark, the index holds <<key, rid>> for the column.  The    *)
(* child executor produces any rid of the table whose tuple is not marked  *)
(* deleted, with the tuple it read; a child that scans under a two-phase   *)
(* isolation level has left a shared lock on the rid.                      *)
(***************************************************************************)
TupleValues == 0..MaxTuple

DmlIdle == [pc |-> "idle", op |-> "none", rid |-> NoRid, tuple |-> 0]

\* UpdateExecutor::GenerateUpdatedTuple with an Add of 1 to the column.
GenerateUpdatedTuple(tuple) == (tuple + 1) % (MaxTuple + 1)

\* Lines 34-39 (delete) and 37-42 (update): the lock call, which returns,
\* sleeps or raises.
DmlLock(t, r) ==
  IF r \in shared_lock_set[t]
  THEN LockUpgradeImpl(t, r)
  ELSE LockExclusiveImpl(t, r)

\* DeleteExecutor::Next, lines 29-39: the child's tuple and rid, then the lock call.
DeleteNextLock(t, r) ==
  /\ dml[t].pc = "idle"
  /\ ~heap[r].deleted
  /\ dml' = [dml EXCEPT ![t] = [pc |-> "locking", op |-> "Delete", rid |-> r,
                                 tuple |-> heap[r].value]]
  /\ DmlLock(t, r)
  /\ UNCHANGED <<heap, index_entries, not_dml_lm_vars>>

\* DeleteExecutor::Next that goes on without the lock call having returned.
DeleteNextApply_Mutant(t) ==
  /\ dml[t].pc = "locking"
  /\ dml[t].op = "Delete"
  /\ heap' = [heap EXCEPT ![dml[t].rid].deleted = TRUE]
  /\ index_entries' = index_entries \ {<<dml[t].tuple, dml[t].rid>>}
  /\ dml' = [dml EXCEPT ![t] = DmlIdle]
  /\ UNCHANGED <<lm_vars, not_dml_lm_vars>>

\* DeleteExecutor::Next, lines 41-54, once the lock call has returned:
\* MarkDelete and DeleteEntry.
DeleteNextApply(t) ==
  /\ dml[t].pc = "locking"
  /\ dml[t].op = "Delete"
  /\ call[t].op = "none"
  /\ heap' = [heap EXCEPT ![dml[t].rid].deleted = TRUE]
  /\ index_entries' = index_entries \ {<<dml[t].tuple, dml[t].rid>>}
  /\ dml' = [dml EXCEPT ![t] = DmlIdle]
  /\ UNCHANGED <<lm_vars, not_dml_lm_vars>>

\* UpdateExecutor::Next, lines 29-42.
UpdateNextLock(t, r) ==
  /\ dml[t].pc = "idle"
  /\ ~heap[r].deleted
  /\ dml' = [dml EXCEPT ![t] = [pc |-> "locking", op |-> "Update", rid |-> r,
                                 tuple |-> heap[r].value]]
  /\ DmlLock(t, r)
  /\ UNCHANGED <<heap, index_entries, not_dml_lm_vars>>

\* UpdateExecutor::Next, lines 44-64, once the lock call has returned:
\* UpdateTuple, then DeleteEntry of the old key and InsertEntry of the new one.
UpdateNextApply(t) ==
  /\ dml[t].pc = "locking"
  /\ dml[t].op = "Update"
  /\ call[t].op = "none"
  /\ LET new_tuple == GenerateUpdatedTuple(dml[t].tuple) IN
     /\ heap' = [heap EXCEPT ![dml[t].rid].value = new_tuple]
     /\ index_entries' = (index_entries \ {<<dml[t].tuple, dml[t].rid>>})
                            \cup {<<new_tuple, dml[t].rid>>}
  /\ dml' = [dml EXCEPT ![t] = DmlIdle]
  /\ UNCHANGED <<lm_vars, not_dml_lm_vars>>

\* The exception of the lock call leaves Next.
DmlNextThrown(t) ==
  /\ dml[t].pc = "locking"
  /\ call[t].op = "thrown"
  /\ dml' = [dml EXCEPT ![t] = DmlIdle]
  /\ UNCHANGED <<heap, index_entries, lm_vars, not_dml_lm_vars>>

\* The child's scan takes its shared lock; the transaction manager releases
\* locks between two calls of Next.
ChildLockShared(t, r) ==
  /\ dml[t].pc = "idle"
  /\ LockShared(t, r)

DmlUnlock(t, r) ==
  /\ dml[t].pc = "idle"
  /\ Unlock(t, r)

InitDml ==
  /\ dml = [t \in Txns |-> DmlIdle]
  /\ heap = [r \in Rids |-> [value |-> 0, deleted |-> FALSE]]
  /\ index_entries = {<<0, r>> : r \in Rids}

NextDml ==
  \/ \E t \in Txns, r \in Rids : ChildLockShared(t, r)
  \/ \E t \in Txns, r \in Rids : DmlUnlock(t, r)
  \/ \E t \in Txns, r \in Rids : DeleteNextLock(t, r)
  \/ \E t \in Txns, r \in Rids : UpdateNextLock(t, r)
  \/ \E t \in Txns : DeleteNextApply(t)
  \/ \E t \in Txns : UpdateNextApply(t)
  \/ \E t \in Txns : DmlNextThrown(t)
  \/ \E t \in Txns : Wake(t)
  \/ RunCycleDetection

\* The lock manager's callers together with the scans.
NextScan ==
  \/ \E t \in Txns, r \in Rids : SeqScanLock(t, r)
  \/ \E t \in Txns : SeqScanUnlock(t)
  \/ \E t \in Txns : SeqScanThrown(t)
  \/ \E t \in Txns, r \in Rids : LockExclusive(t, r)
  \/ \E t \in Txns, r \in Rids : Unlock(t, r)
  \/ \E t \in Txns : Wake(t)
  \/ RunCycleDetection

\* Scans at every isolation level.  A transaction runs on one thread: its other
\* executors and its commit or abort call the lock manager between two passes of
\* the scan's loop, not inside one.
NextScanIsolation ==
  \/ \E t \in Txns, r \in Rids : SeqScanLock(t, r)
  \/ \E t \in Txns : SeqScanUnlock(t)
  \/ \E t \in Txns : SeqScanThrown(t)
  \/ \E t \in Txns, r \in Rids : scan[t].pc = "idle" /\ LockExclusive(t, r)
  \/ \E t \in Txns, r \in Rids : scan[t].pc = "idle" /\ Unlock(t, r)
  \/ \E t \in Txns : Wake(t)
  \/ RunCycleDetection

Init == InitLM /\ InitBPM /\ InitTree /\ InitExec /\ InitLRU /\ InitDml /\ InitAgg /\ InitCatalog

\* Scans and writers at READ_COMMITTED.
InitReadCommitted ==
  /\ Init
  /\ isolation = [t \in AllTxns |-> IF t \in Txns THEN "READ_COMMITTED" ELSE "REPEATABLE_READ"]

SpecScan == InitReadCommitted /\ [][NextScan]_vars

SpecLM == Init /\ [][NextLM]_vars

SpecScanIsolation == Init /\ [][NextScanIsolation]_vars

\* Every transaction at the default isolation level.
InitDefault ==
  /\ Init
  /\ isolation = [t \in AllTxns |-> "REPEATABLE_READ"]

SpecBPM == InitDefault /\ [][NextBPM]_vars

SpecLRU == InitDefault /\ [][NextLRU]_vars

\* Writers at the two isolation levels under which a scan takes shared
\* locks: the first transaction keeps them, the others release them early.
InitWriters ==
  /\ Init
  /\ isolation = [t \in AllTxns |-> IF t \in Txns \ {1} THEN "READ_COMMITTED"
                                    ELSE "REPEATABLE_READ"]

SpecDml == InitWriters /\ [][NextDml]_vars

InitAggregation ==
  /\ InitLM /\ InitBPM /\ InitTree /\ InitExec /\ InitLRU /\ InitDml /\ InitAggAny
  /\ InitCatalog
  /\ isolation = [t \in AllTxns |-> "REPEATABLE_READ"]

SpecAgg == InitAggregation /\ [][NextAgg]_vars

SpecCatalog == InitDefault /\ [][NextCatalog]_vars

(***************************************************************************)
(* Histories of the deadlock detector with every transaction of the        *)
(* transaction manager: a transaction locks its own row first (rid =       *)
(* its id) and then other rows of the table, MaxLocks in all, each in      *)
(* either mode; the transaction manager releases the locks of a            *)
(* transaction whose call raised.                                          *)
(***************************************************************************)
\* The requests of t in the lock table: <<rid, position>>.
Requests(t) ==
  {<<r, i>> \in AllRids \X (1..(2 * MaxTxns)) :
     /\ i <= Len(lock_table[r].request_queue)
     /\ lock_table[r].request_queue[i].txn_id = t}

MayLock(t, r) ==
  IF Requests(t) = {} THEN r = t
  ELSE Cardinality(Requests(t)) < MaxLocks /\ \A x \in Requests(t) : x[1] # r

NextDetect ==
  \/ \E t \in AllTxns, r \in AllRids : MayLock(t, r) /\ LockShared(t, r)
  \/ \E t \in AllTxns, r \in AllRids : MayLock(t, r) /\ LockExclusive(t, r)
  \/ \E t \in AllTxns, r \in AllRids : call[t].op = "thrown" /\ Unlock(t, r)
  \/ \E t \in AllTxns : Wake(t)
  \/ RunCycleDetection

\* The detector thread runs every interval; a notified thread is scheduled; the
\* transaction manager releases the locks of a transaction whose call raised.
FairSpecDetect ==
  /\ InitDefault
  /\ [][NextDetect]_vars
  /\ WF_vars(RunCycleDetection)
  /\ \A t \in AllTxns : WF_vars(Wake(t))
  /\ \A t \in AllTxns : WF_vars(call[t].op = "thrown" /\ \E r \in AllRids : Unlock(t, r))

\* The tree on its own buffer pool, the header page allocated and pinned.
InitTreePool ==
  /\ InitLM
  /\ isolation = [t \in AllTxns |-> "REPEATABLE_READ"]
  /\ bpm = NewPageImpl(BufferPoolManager(TreePoolSize)).b
  /\ last_op = NoOp
  /\ InitTree
  /\ InitExec
  /\ InitLRU /\ InitDml /\ InitAgg /\ InitCatalog

SpecTree == InitTreePool /\ [][NextTree]_vars

SpecIter == InitTreePool /\ [][NextIter]_vars

SpecMap == InitTreePool /\ [][NextMap]_vars

\* Insert a key not yet stored, while no Remove has been called.
PermInsert(key) ==
  /\ tree_op.op # "Remove"
  /\ key \notin DOMAIN contents
  /\ InsertCall(key, key)
  /\ insert_order' = Append(insert_order, key)

\* Remove the stored key that was inserted last.
PermRemove ==
  /\ insert_order # <<>>
  /\ RemoveCall(insert_order[Len(insert_order)])
  /\ insert_order' = SubSeq(insert_order, 1, Len(insert_order) - 1)

\* The keys of a set in any order, then the same keys removed in the reverse order.
NextPerm ==
  \/ \E key \in Keys : PermInsert(key)
  \/ PermRemove

SpecPerm == InitTreePool /\ [][NextPerm]_vars

(***************************************************************************)
(* Insert on a buffer pool too small for the pages Insert needs:           *)
(* BPlusTree::NewPage throws Exception(OUT_OF_MEMORY) when the pool's      *)
(* NewPage returns nullptr, and no caller in b_plus_tree.cpp catches it.   *)
(***************************************************************************)
\* Insert leaves by the exception: nothing after the throw runs.  The caller
\* sees the call fail, so the history map does not change.
InsertThrows(key) ==
  /\ ~tree.crashed
  /\ ~tree.iter.open
  /\ tree.calls < MaxCalls
  /\ \E st \in {TreeInsert(StartCall, key, key)} :
       /\ ~st.blocked
       /\ st.exception
       /\ bpm' = st.b
       /\ tree' = [tree EXCEPT !.root_page_id = st.root_page_id,
                               !.root_latch = st.root_latch, !.wlatch = st.wlatch,
                               !.rlatch = st.rlatch, !.page_set = st.page_set,
                               !.deleted_page_set = st.deleted_page_set,
                               !.calls = @ + 1]
       /\ tree_op' = [op |-> "InsertOutOfMemory", key |-> key, ret |-> FALSE,
                      unlatched |-> st.unlatched, root_unguarded |-> st.root_unguarded,
                 freed_latched |-> st.freed_latched, unpin_failed |-> st.unpin_failed]
  /\ UNCHANGED <<contents, insert_order, not_tree_vars>>

\* A pool of 1 .. MaxOomPool frames, one of them holding the pinned header page.
InitSmallPool ==
  /\ InitLM
  /\ isolation = [t \in AllTxns |-> "REPEATABLE_READ"]
  /\ \E pool_size \in 1..MaxOomPool : bpm = NewPageImpl(BufferPoolManager(pool_size)).b
  /\ last_op = NoOp
  /\ InitTree
  /\ InitExec
  /\ InitLRU /\ InitDml /\ InitAgg /\ InitCatalog

NextOom ==
  \/ \E key \in Keys : GetValue(key)
  \/ \E key \in Keys : Insert(key, key)
  \/ \E key \in Keys : Remove(key)
  \/ \E key \in Keys : InsertThrows(key)

SpecOom == InitSmallPool /\ [][NextOom]_vars

\* Every operation of the tree that takes root_latch_.
NextOps ==
  \/ \E key \in MapKeys : GetValue(key)
  \/ \E key \in MapKeys : Insert(key, key)
  \/ \E key \in MapKeys : Remove(key)
  \/ IterBegin
  \/ \E key \in MapKeys : IterBeginAt(key)
  \/ IterStep
  \/ IterFinish
  \/ IterDrop

SpecOps == InitTreePool /\ [][NextOps]_vars

(***************************************************************************)
(* A second thread calls GetValue while the first calls Insert and Remove. *)
(* tree.reader is the position of the second thread: "idle" outside        *)
(* GetValue, "checked" between root_latch_.unlock() of line 50 and         *)
(* root_latch_.lock() of FindLeafPage (line 447), where it holds no latch  *)
(* and a whole call of the first thread can run.                           *)
(***************************************************************************)
\* GetValue lines 45-50: the emptiness check under root_latch_.
ReaderCheck(key) ==
  /\ ~tree.crashed
  /\ tree.calls < MaxCalls
  /\ tree.reader.pc = "idle"
  /\ \E locked \in {RootLock(StartCall)} :
       /\ ~locked.blocked
       /\ IF IsEmpty(locked)
          THEN /\ tree' = [tree EXCEPT !.calls = @ + 1]
               /\ tree_op' = [NoTreeOp EXCEPT !.op = "GetValue", !.key = key, !.ret = <<>>]
          ELSE /\ tree' = [tree EXCEPT !.reader = [pc |-> "checked", key |-> key]]
               /\ UNCHANGED tree_op
  /\ UNCHANGED <<bpm, contents, insert_order, not_tree_vars>>

\* GetValue lines 53-64: FindLeafPage from the root_page_id_ of this instant.
ReaderFind ==
  /\ tree.reader.pc = "checked"
  /\ \E st \in {GetValueFind(StartCall, tree.reader.key)} :
       /\ ~st.blocked
       /\ bpm' = st.b
       /\ tree' = [tree EXCEPT !.root_latch = st.root_latch, !.wlatch = st.wlatch,
                               !.rlatch = st.rlatch, !.crashed = st.ub,
                               !.calls = @ + 1, !.reader = ReaderIdle]
       /\ tree_op' = [op |-> "GetValue", key |-> tree.reader.key, ret |-> st.ret,
                      unlatched |-> st.unlatched, root_unguarded |-> st.root_unguarded,
                 freed_latched |-> st.freed_latched, unpin_failed |-> st.unpin_failed]
  /\ UNCHANGED <<contents, insert_order, not_tree_vars>>

NextConc ==
  \/ \E key \in MapKeys : Insert(key, key)
  \/ \E key \in MapKeys : Remove(key)
  \/ \E key \in MapKeys : ReaderCheck(key)
  \/ ReaderFind

SpecConc == InitTreePool /\ [][NextConc]_vars

(***************************************************************************)
(* A second thread calls Remove while the first thread iterates.  The      *)
(* iterator holds the read latch of its leaf between its steps, so the     *)
(* Remove can reach sibling_page->WLatch() of CoalesceOrRedistribute       *)
(* (line 274) on a leaf the iterator holds.  It then waits with the write  *)
(* latches FindLeafPage left it: tree.reader.pc = "sibling".  What it      *)
(* wrote to its leaf is behind that leaf's write latch and no frame is     *)
(* evicted in this pool, so the call's writes and pins take effect in the  *)
(* model when it gets the sibling's latch.  A Remove that would wait in    *)
(* the descent holds no latch the iterator asks for: it is not enabled.    *)
(***************************************************************************)
\* Remove lines 228-235: root_latch_.lock() and FindLeafPage(key, false, REMOVE).
RemoveDescent(st, key) ==
  Bind(RootLock(st), LAMBDA locked : FindLeafPage(locked, key, FALSE, "REMOVE"))

\* The call of the second thread as it starts: it holds no latch yet.
RemoverStart ==
  [StartCall EXCEPT !.root_latch = FALSE, !.wlatch = {}, !.page_set = <<>>]

\* The second thread calls Remove(key).
RemoverCall(key) ==
  /\ ~tree.crashed
  /\ tree.iter.open
  /\ tree.calls < MaxCalls
  /\ tree.reader.pc = "idle"
  /\ tree.wlatch = {}
  /\ ~tree.root_latch
  /\ ~IsEmpty(StartCall)
  /\ \E st \in {TreeRemove(StartCall, key)} :
     \E found \in {RemoveDescent(StartCall, key)} :
       /\ ~found.blocked
       /\ ~found.ub
       /\ IF st.blocked
          THEN /\ tree' = [tree EXCEPT !.root_latch = found.root_latch,
                                       !.wlatch = found.wlatch,
                                       !.page_set = found.page_set,
                                       !.reader = [pc |-> "sibling", key |-> key]]
               /\ UNCHANGED <<bpm, tree_op, contents, not_tree_vars>>
          ELSE /\ Return("Remove", key, st)
               /\ contents' = [k \in DOMAIN contents \ {key} |-> contents[k]]
  /\ UNCHANGED insert_order

\* sibling_page->WLatch() returns: the Remove of the second thread runs to its end.
RemoverResume ==
  /\ tree.reader.pc = "sibling"
  /\ \E st \in {TreeRemove(RemoverStart, tree.reader.key)} :
       /\ ~st.blocked
       /\ ~st.oom
       /\ bpm' = st.b
       /\ tree' = [tree EXCEPT !.root_page_id = st.root_page_id,
                               !.root_latch = st.root_latch, !.wlatch = st.wlatch,
                               !.rlatch = st.rlatch, !.page_set = st.page_set,
                               !.deleted_page_set = st.deleted_page_set,
                               !.crashed = st.ub, !.calls = @ + 1,
                               !.reader = ReaderIdle]
       /\ tree_op' = [op |-> "Remove", key |-> tree.reader.key, ret |-> st.ret,
                      unlatched |-> st.unlatched, root_unguarded |-> st.root_unguarded,
                 freed_latched |-> st.freed_latched, unpin_failed |-> st.unpin_failed]
       /\ contents' = [k \in DOMAIN contents \ {tree.reader.key} |-> contents[k]]
  /\ UNCHANGED <<insert_order, not_tree_vars>>

NextScanRemove ==
  \/ \E key \in Keys : Insert(key, key)
  \/ IterBegin
  \/ \E key \in Keys : IterBeginAt(key)
  \/ IterStep
  \/ IterFinish
  \/ IterDrop
  \/ \E key \in Keys : RemoverCall(key)
  \/ RemoverResume

SpecScanRemove == InitTreePool /\ [][NextScanRemove]_vars

(***************************************************************************)
(* Shared holders and one writer on the same rid: every transaction but    *)
(* the last takes the shared lock once and releases it, the last calls     *)
(* LockExclusive.                                                          *)
(***************************************************************************)
Writer == NumTxns

Readers == Txns \ {Writer}

\* No lock of another rid is requested or held.
OnlyRid(r) == \A q \in Rids \ {r} : lock_table[q].request_queue = <<>>

ReaderLock(t, r) ==
  /\ t \in Readers
  /\ OnlyRid(r)
  /\ isolation[t] # "READ_UNCOMMITTED"
  /\ ~has_unlocked[t]
  /\ r \notin shared_lock_set[t]
  /\ LockShared(t, r)

ReaderUnlock(t, r) ==
  /\ t \in Readers
  /\ Unlock(t, r)

WriterLock(r) ==
  /\ OnlyRid(r)
  /\ r \notin exclusive_lock_set[Writer]
  /\ LockExclusive(Writer, r)

NextRW ==
  \/ \E t \in Txns, r \in Rids : ReaderLock(t, r)
  \/ \E t \in Txns, r \in Rids : ReaderUnlock(t, r)
  \/ \E r \in Rids : WriterLock(r)
  \/ \E t \in Txns : Wake(t)
  \/ \E t \in Txns : SpuriousWake(t)

\* A notified thread is scheduled.
FairSpecRW ==
  /\ Init
  /\ [][NextRW]_vars
  /\ \A t \in Txns : WF_vars(Wake(t))

\* The detector thread runs every interval; a notified thread is scheduled; the
\* transaction manager releases the locks of a transaction whose call raised.
FairSpecLM ==
  /\ InitDefault
  /\ [][NextLM]_vars
  /\ WF_vars(RunCycleDetection)
  /\ \A t \in Txns : WF_vars(Wake(t))
  /\ \A t \in Txns : WF_vars(call[t].op = "thrown" /\ \E r \in Rids : Unlock(t, r))

(***************************************************************************)
(* Properties of the lock manager.                                        *)
(***************************************************************************)
GrantedExclusive(r) ==
  {i \in 1..Len(lock_table[r].request_queue) :
     /\ lock_table[r].request_queue[i].granted
     /\ lock_table[r].request_queue[i].lock_mode = "EXCLUSIVE"}

GrantedOn(r, u) ==
  \E i \in 1..Len(lock_table[r].request_queue) :
     /\ lock_table[r].request_queue[i].txn_id = u
     /\ lock_table[r].request_queue[i].granted

\* C1: for every rid either writer_enter_ is false and reader_count_ >= 0, or
\* writer_enter_ is true, reader_count_ = 0 and exactly one request of the queue is a
\* granted exclusive request.
C1_WriterExcludesReaders ==
  \A r \in Rids :
    \/ ~lock_table[r].writer_enter /\ lock_table[r].reader_count >= 0
    \/ /\ lock_table[r].writer_enter
       /\ lock_table[r].reader_count = 0
       /\ Cardinality(GrantedExclusive(r)) = 1

\* C1 witness: a writer holds a rid while another transaction's shared request sleeps
\* behind it in the queue.
C1_Witness ==
  \E r \in Rids, t \in Txns :
    /\ lock_table[r].writer_enter
    /\ r \in exclusive_lock_set[t]
    /\ Len(lock_table[r].request_queue) >= 2
    /\ \E u \in Txns \ {t} : call[u].op = "LockShared" /\ call[u].rid = r

\* C2: under repeatable-read a transaction acquires no lock after Unlock released one
\* of its locks.
C2_NoLockAfterUnlock ==
  [][\A t \in Txns :
       (isolation[t] = "REPEATABLE_READ" /\ has_unlocked[t])
         => /\ shared_lock_set'[t] \subseteq shared_lock_set[t]
            /\ exclusive_lock_set'[t] \subseteq exclusive_lock_set[t]]_vars

\* t is blocked in a lock call on a rid on which u holds a conflicting lock.
WaitsFor(t, u) ==
  /\ IsWaiting(t)
  /\ txn_state[t] # "ABORTED"
  /\ u # t
  /\ LET r == call[t].rid IN
     /\ GrantedOn(r, u)
     /\ IF call[t].op = "LockShared"
        THEN r \in exclusive_lock_set[u] /\ ~SharedWaitPred(lock_table[r], t)
        ELSE ~ExclusiveWaitPred(lock_table[r], t)

Deadlocked(S) == S # {} /\ \A t \in S : \E u \in S : WaitsFor(t, u)

\* C6: a set of transactions each blocked on a lock held by another member does not
\* stay blocked: the detector eventually aborts a member.
C6_DeadlockIsBroken ==
  \A S \in (SUBSET Txns) \ {{}} : Deadlocked(S) ~> (\E t \in S : txn_state[t] = "ABORTED")

\* t sleeps in LockUpgrade while nothing stands in its way any more.
UpgradeReady(t) ==
  /\ call[t].op = "LockUpgrade"
  /\ txn_state[t] # "ABORTED"
  /\ ~lock_table[call[t].rid].writer_enter
  /\ lock_table[call[t].rid].reader_count = 0

\* C7: a transaction waiting in LockUpgrade is eventually granted the exclusive lock
\* once no writer is present and every other shared lock on the rid is gone.
C7_UpgradeEventuallyGranted ==
  \A t \in Txns :
    UpgradeReady(t) ~> (call[t].op = "none" \/ ~UpgradeReady(t))

\* The step is a LockUpgrade(t, r) call: the rid leaves the shared lock set and the
\* request stays in the queue.
IsUpgradeCall(t, r) ==
  /\ call[t].op = "none"
  /\ r \in shared_lock_set[t]
  /\ r \notin shared_lock_set'[t]
  /\ Len(lock_table'[r].request_queue) = Len(lock_table[r].request_queue)

\* C8: LockUpgrade raises UPGRADE_CONFLICT if and only if another transaction is at
\* that moment waiting in LockUpgrade on the same rid.
C8_UpgradeConflictIff ==
  [][\A t \in Txns, r \in Rids :
       IsUpgradeCall(t, r)
         => ((call'[t].op = "thrown" /\ abort_reason'[t] = "UPGRADE_CONFLICT")
              <=> (\E u \in Txns \ {t} : call[u].op = "LockUpgrade" /\ call[u].rid = r))]_vars


(***************************************************************************)
(* Buffer pool manager properties.                                         *)
(***************************************************************************)
Frames == 0..(bpm.pool_size - 1)

PinnedPages == {p \in DOMAIN bpm.page_table : bpm.pages[bpm.page_table[p]].pin_count > 0}

\* C9: after any sequence of FetchPage, NewPage, UnpinPage, FlushPage and
\* DeletePage no frame with pin_count > 0 is in the replacer or on the free
\* list, and the number of distinct pinned pages never exceeds pool_size.
C9_PinnedFramesNotEvictable ==
  /\ \A f \in Frames :
       bpm.pages[f].pin_count > 0 =>
         /\ f \notin SeqToSet(bpm.replacer.list)
         /\ f \notin SeqToSet(bpm.free_list)
  /\ Cardinality(PinnedPages) <= bpm.pool_size

\* A page that sat unpinned in the replacer has been fetched again, after an
\* eviction has taken place, and every frame of the pool is now pinned.
C9_Witness ==
  /\ last_op.op = "FetchPage"
  /\ last_op.was_resident
  /\ last_op.ret
  /\ FrameOf(bpm, last_op.page_id).pin_count = 1
  /\ bpm.next_page_id > bpm.pool_size
  /\ Cardinality(PinnedPages) = bpm.pool_size

\* C10: a resident page whose frame is dirty is written back to disk by the
\* DeletePage call that removes it.
C10_DirtyWrittenBeforeDelete ==
  (/\ last_op.op = "DeletePage"
   /\ last_op.ret
   /\ last_op.was_resident
   /\ last_op.was_dirty)
    => last_op.page_id \in SeqToSet(last_op.written)


(***************************************************************************)
(* B+tree properties.                                                      *)
(***************************************************************************)
\* The node stored under a page id: in its frame when resident, else on disk.
PageData(page_id) ==
  IF page_id \in DOMAIN bpm.page_table THEN bpm.pages[bpm.page_table[page_id]].data
  ELSE ReadPage(bpm, page_id)

ChildrenOf(page_id) ==
  LET node == PageData(page_id) IN
  IF IsNode(node) /\ ~IsLeafPage(node) THEN {node.array[i].value : i \in 1..GetSize(node)}
  ELSE {}

RECURSIVE Below(_, _)
Below(page_ids, depth) ==
  IF depth = 0 \/ page_ids = {} THEN page_ids
  ELSE page_ids \cup Below(UNION {ChildrenOf(p) : p \in page_ids}, depth - 1)

\* The pages of the tree: those reachable from root_page_id_.
TreePages ==
  IF tree.root_page_id = INVALID_PAGE_ID THEN {}
  ELSE Below({tree.root_page_id}, TreeMaxPages)

PinCount(b, page_id) ==
  IF page_id \in DOMAIN b.page_table THEN b.pages[b.page_table[page_id]].pin_count ELSE 0

\* C3: after any sequence of Insert and Remove every non-root node has size in
\* [min_size, max_size - 1], a root leaf has size >= 1 and an internal root has
\* at least 2 children.
C3_Occupancy ==
  \A p \in TreePages :
    LET node == PageData(p) IN
    /\ IsNode(node)
    /\ IF p = tree.root_page_id
       THEN IF IsLeafPage(node) THEN GetSize(node) >= 1 ELSE GetSize(node) >= 2
       ELSE /\ GetSize(node) >= GetMinSize(node)
            /\ GetSize(node) <= GetMaxSize(node) - 1

\* C4: every completed GetValue, Insert and Remove leaves the pin count of every
\* page equal to its value on entry to the operation.
C4_BalancedPins ==
  [][tree_op'.op \in {"GetValue", "Insert", "Remove"} =>
       \A p \in 0..TreeMaxPages : PinCount(bpm', p) = PinCount(bpm, p)]_vars

\* C5: a thread changes a tree page only while it holds the page's write latch or
\* has just allocated the page, and changes root_page_id only while it holds the
\* root guard.
C5_ChangesUnderLatch ==
  tree_op.op \in {"Insert", "Remove"} =>
    /\ tree_op.unlatched = {}
    /\ ~tree_op.root_unguarded

(***************************************************************************)
(* Executor properties.                                                    *)
(***************************************************************************)
\* C11: under READ_COMMITTED an exclusive lock a transaction holds is released only
\* by the transaction manager at commit or abort: no step of a sequential scan takes
\* a rid out of the transaction's exclusive lock set.
C11_ExclusiveHeldToCommit ==
  [][\A t \in Txns :
       (isolation[t] = "READ_COMMITTED" /\ scan[t].pc = "locked" /\ scan'[t].pc = "idle")
         => exclusive_lock_set[t] \subseteq exclusive_lock_set'[t]]_vars

(***************************************************************************)
(* Index iterator properties.                                              *)
(***************************************************************************)
\* C12: a loop from begin() to end() gives exactly the keys stored at that time, in
\* ascending order, each once, also when the tree is empty.
C12_IterationIsSorted ==
  tree_op.op = "Iterate" => tree_op.ret = SortedSeq(DOMAIN contents)

(***************************************************************************)
(* The tree as a map.                                                      *)
(***************************************************************************)
\* C13: the tree behaves as a map with unique keys.  Insert(k, v) returns false when
\* k is stored and true otherwise; GetValue(k) gives exactly the value of the last
\* successful Insert of k that no Remove(k) followed (so an Insert that returned
\* false changed nothing), and nothing when there is none.
C13_TreeIsAMap ==
  [][/\ tree_op'.op = "Insert" => tree_op'.ret = (tree_op'.key \notin DOMAIN contents)
     /\ tree_op'.op = "GetValue" =>
           tree_op'.ret = IF tree_op'.key \in DOMAIN contents
                          THEN <<contents[tree_op'.key]>> ELSE <<>>]_vars

\* C13 witness: in a tree of more than one level an Insert of a stored key was
\* refused and the leaf still holds the value stored first.
C13_Witness ==
  /\ tree_op.op = "Insert"
  /\ tree_op.ret = FALSE
  /\ tree_op.key \in DOMAIN contents
  /\ PageData(tree.root_page_id).page_type = "INTERNAL"
  /\ \E p \in TreePages :
       /\ IsLeafPage(PageData(p))
       /\ \E i \in 1..GetSize(PageData(p)) :
            /\ PageData(p).array[i].key = tree_op.key
            /\ PageData(p).array[i].value = contents[tree_op.key]

\* C14: after the keys of a set were inserted in any order and removed in the
\* reverse order, every Remove has returned normally and, once the last key
\* is removed, the tree is empty: root_page_id_ is INVALID_PAGE_ID.
C14_InsertThenReverseRemoveEmpties ==
  tree_op.op = "Remove" =>
    /\ ~tree.crashed
    /\ insert_order = <<>> => tree.root_page_id = INVALID_PAGE_ID

C14_Witness ==
  /\ tree_op.op = "Remove"
  /\ insert_order = <<>>
  /\ tree.calls = 2 * MaxKey
  /\ tree.root_page_id = INVALID_PAGE_ID
  /\ ~tree.crashed

\* The keys stored in the leaves at or below a page.
KeysBelow(page_id) ==
  UNION {IF IsNode(PageData(p)) /\ IsLeafPage(PageData(p))
         THEN {PageData(p).array[i].key : i \in 1..GetSize(PageData(p))}
         ELSE {} : p \in Below({page_id}, TreeMaxPages)}

\* C15: in every internal node, for the separator key k at index i >= 1, every
\* key in the subtree of child i - 1 is less than k and every key in the
\* subtree of child i is at least k, after any Insert and Remove (splits,
\* redistribution and coalescing included).
C15_SeparatorsOrdered ==
  \A p \in TreePages :
    LET node == PageData(p) IN
    (IsNode(node) /\ ~IsLeafPage(node)) =>
      \A i \in 1..(GetSize(node) - 1) :
        /\ \A k \in KeysBelow(ValueAt(node, i - 1)) : k < KeyAt(node, i)
        /\ \A k \in KeysBelow(ValueAt(node, i)) : k >= KeyAt(node, i)

C15_Witness ==
  /\ tree_op.op = "Remove"
  /\ ~tree.crashed
  /\ tree.root_page_id # INVALID_PAGE_ID
  /\ \E p \in ChildrenOf(tree.root_page_id) :
       /\ IsNode(PageData(p))
       /\ ~IsLeafPage(PageData(p))
       /\ GetSize(PageData(p)) >= 2
  /\ KeysBelow(tree.root_page_id) = DOMAIN contents
  /\ tree_op.key \notin DOMAIN contents

\* C16: a GetValue that found the tree non-empty descends from a valid
\* root_page_id_, also when a Remove of another thread has emptied the tree
\* since the check, and returns the value the key has at that instant.
C16_GetValueDescendsFromValidRoot ==
  [][(tree.reader.pc = "checked" /\ tree'.reader.pc = "idle") =>
       /\ tree.root_page_id # INVALID_PAGE_ID
       /\ tree_op'.ret = IF tree.reader.key \in DOMAIN contents
                         THEN <<contents[tree.reader.key]>> ELSE <<>>]_vars

\* C17: when GetValue, Insert, Remove, begin() or Begin(key) has returned, with
\* any result, the caller does not hold root_latch_ and the transaction's
\* page set is empty.
C17_RootGuardReleased ==
  tree_op.op \in {"GetValue", "Insert", "Remove", "begin", "Begin"} =>
    /\ ~tree.root_latch
    /\ tree.page_set = <<>>

C17_Witness ==
  /\ tree_op.op = "Insert"
  /\ tree_op.ret = TRUE
  /\ tree.calls = 3
  /\ PageData(tree.root_page_id).page_type = "INTERNAL"
  /\ ~tree.root_latch
  /\ tree.page_set = <<>>

\* C18: when Insert ends because NewPage returned null (in StartNewTree, in
\* Split or for the new root), it has released root_latch_ and every page
\* latch it took and has unpinned every page it fetched.
C18_OutOfMemoryReleasesAll ==
  [][tree_op'.op = "InsertOutOfMemory" =>
       /\ ~tree'.root_latch
       /\ tree'.wlatch = {}
       /\ tree'.rlatch = {}
       /\ tree'.page_set = <<>>
       /\ \A p \in 0..TreeMaxPages : PinCount(bpm', p) = PinCount(bpm, p)]_vars

\* No transaction other than 1 and 2 holds or requests a lock.
OthersIdle ==
  \A t \in Txns \ {1, 2} :
    call[t].op = "none" /\ shared_lock_set[t] = {} /\ exclusive_lock_set[t] = {}

\* Transactions 1 and 2 each hold the exclusive lock of one rid and each sleep in
\* LockExclusive on the rid of the other.
ExclusiveDeadlock(a, b) ==
  /\ a # b
  /\ OthersIdle
  /\ a \in exclusive_lock_set[1]
  /\ b \in exclusive_lock_set[2]
  /\ call[1].op = "LockExclusive" /\ call[1].rid = b
  /\ call[2].op = "LockExclusive" /\ call[2].rid = a
  /\ txn_state[1] # "ABORTED"
  /\ txn_state[2] # "ABORTED"

WriterReady(r) ==
  /\ call[Writer].op = "LockExclusive"
  /\ call[Writer].rid = r
  /\ \A t \in Readers : r \notin shared_lock_set[t]

TookFrame(op) ==
  /\ op.op \in {"FetchPage", "NewPage"}
  /\ op.ret
  /\ ~op.was_resident

\* C21: when FetchPage or NewPage reuses a frame, the page the frame held is
\* written to disk exactly once, under its own page id and with the bytes the
\* frame held, if it was dirty, and no disk write happens if it was clean.
C21_DirtyVictimWrittenOnce ==
  [][TookFrame(last_op') =>
       LET frame_id == bpm'.page_table[last_op'.page_id]
           old == bpm.pages[frame_id]
       IN IF old.is_dirty
          THEN /\ bpm'.written = <<old.page_id>>
               /\ bpm'.disk = [bpm.disk EXCEPT ![old.page_id] = old.data]
          ELSE /\ bpm'.written = <<>>
               /\ bpm'.disk = bpm.disk]_vars

\* NewPage has evicted a dirty page whose bytes a client had written, and the
\* disk now holds those bytes under that page's id.
C21_Witness ==
  /\ last_op.op = "NewPage"
  /\ last_op.ret
  /\ Len(last_op.written) = 1
  /\ last_op.written[1] # last_op.page_id
  /\ bpm.disk[last_op.written[1]] = Bytes(1)
  /\ ~IsResident(bpm, last_op.written[1])

AllPinned(b) == \A f \in 0..(b.pool_size - 1) : b.pages[f].pin_count > 0

\* C22: with every frame pinned, FetchPage of a page that is not resident and
\* NewPage return null and leave the page table, the frames (pin counts and
\* dirty flags), the free list and the replacer as they were, and the failed
\* NewPage takes no page id from the disk manager.
C22_NoFrameNoChange ==
  [][(/\ AllPinned(bpm)
      /\ last_op'.op \in {"FetchPage", "NewPage"}
      /\ ~last_op'.was_resident) =>
       /\ ~last_op'.ret
       /\ bpm'.page_table = bpm.page_table
       /\ bpm'.pages = bpm.pages
       /\ bpm'.free_list = bpm.free_list
       /\ bpm'.replacer = bpm.replacer
       /\ bpm'.next_page_id = bpm.next_page_id
       /\ bpm'.disk = bpm.disk
       /\ bpm'.written = <<>>]_vars

\* FetchPage of an evicted page has just failed because both frames are pinned.
C22_Witness ==
  /\ last_op.op = "FetchPage"
  /\ ~last_op.ret
  /\ ~last_op.was_resident
  /\ AllPinned(bpm)
  /\ bpm.free_list = <<>>
  /\ Size(bpm.replacer) = 0

\* C23: UnpinPage(page_id, is_dirty) returns false and changes nothing when
\* the page is not resident or its pin_count is 0; otherwise it returns true,
\* lowers pin_count by one, sets the dirty flag to its old value or is_dirty,
\* puts the frame into the replacer exactly when pin_count has reached 0, and
\* leaves the other frames, the page table, the free list and the disk alone.
C23_UnpinContract ==
  [][last_op'.op = "UnpinPage" =>
       LET page_id == last_op'.page_id IN
       IF ~IsResident(bpm, page_id) \/ FrameOf(bpm, page_id).pin_count = 0
       THEN /\ ~last_op'.ret
            /\ bpm' = BeginCall(bpm)
       ELSE LET frame_id == bpm.page_table[page_id]
                old == bpm.pages[frame_id]
            IN /\ last_op'.ret
               /\ bpm'.pages = [bpm.pages EXCEPT
                                  ![frame_id].pin_count = old.pin_count - 1,
                                  ![frame_id].is_dirty = old.is_dirty \/ last_op'.is_dirty]
               /\ (frame_id \in SeqToSet(bpm'.replacer.list)) <=> (old.pin_count = 1)
               /\ old.pin_count > 1 => bpm'.replacer = bpm.replacer
               /\ bpm'.page_table = bpm.page_table
               /\ bpm'.free_list = bpm.free_list
               /\ bpm'.disk = bpm.disk
               /\ bpm'.written = <<>>]_vars

\* A page that was dirty has been unpinned with is_dirty = false down to
\* pin_count 0: it is still dirty and its frame is now in the replacer.
C23_Witness ==
  /\ last_op.op = "UnpinPage"
  /\ last_op.ret
  /\ last_op.was_dirty
  /\ ~last_op.is_dirty
  /\ FrameOf(bpm, last_op.page_id).is_dirty
  /\ FrameOf(bpm, last_op.page_id).pin_count = 0
  /\ bpm.page_table[last_op.page_id] \in SeqToSet(bpm.replacer.list)

(***************************************************************************)
(* LRU replacer properties.                                                *)
(***************************************************************************)
\* C24: over any sequence of Pin, Unpin and Victim, Victim removes and
\* returns the evictable frame that became evictable earliest and returns
\* false, changing nothing, when no frame is evictable; Unpin of a frame
\* that is evictable and Pin of a frame that is not leave the replacer as
\* it is; the replacer holds exactly the evictable frames.
C24_VictimIsEarliestUnpinned ==
  /\ [](SeqToSet(lru.list) = SeqToSet(arrival))
  /\ [][lru_op'.op = "Victim" =>
           IF arrival = <<>>
           THEN ~lru_op'.ret /\ lru' = lru
           ELSE /\ lru_op'.ret
                /\ lru_op'.frame_id = Head(arrival)
                /\ arrival' = Tail(arrival)]_vars
  /\ [][(lru_op'.op = "Unpin" /\ lru_op'.frame_id \in SeqToSet(arrival)) =>
           (lru' = lru /\ arrival' = arrival)]_vars
  /\ [][(lru_op'.op = "Pin" /\ lru_op'.frame_id \notin SeqToSet(arrival)) =>
           (lru' = lru /\ arrival' = arrival)]_vars

\* Victim has returned a frame while a frame with a smaller id stays
\* evictable: the order of eviction is the order of the unpins, not of the ids.
C24_Witness ==
  /\ lru_op.op = "Victim"
  /\ lru_op.ret
  /\ Len(arrival) >= 1
  /\ lru_op.frame_id > arrival[1]

(***************************************************************************)
(* Lock manager: the two phases.                                           *)
(***************************************************************************)
\* The step is an Unlock of rid r by transaction t: the transaction held the
\* lock, does not hold it afterwards, and its thread is where it was.
Released(t, r) ==
  /\ r \in shared_lock_set[t] \cup exclusive_lock_set[t]
  /\ r \notin shared_lock_set'[t] \cup exclusive_lock_set'[t]
  /\ call'[t] = call[t]

\* C25: Unlock moves a growing transaction to shrinking, except that the
\* release of a shared lock under READ_COMMITTED leaves it growing; a
\* transaction that is shrinking or aborted keeps its state.
C25_UnlockStartsShrinking ==
  [][\A t \in Txns, r \in Rids :
       Released(t, r) =>
         txn_state'[t] =
           IF /\ txn_state[t] = "GROWING"
              /\ ~(r \in shared_lock_set[t] /\ isolation[t] = "READ_COMMITTED")
           THEN "SHRINKING"
           ELSE txn_state[t]]_vars

\* A READ_COMMITTED transaction has released a shared lock and is still
\* growing, while another transaction went to shrinking by its unlock.
C25_Witness ==
  \E t, u \in Txns :
    /\ has_unlocked[t]
    /\ isolation[t] = "READ_COMMITTED"
    /\ txn_state[t] = "GROWING"
    /\ has_unlocked[u]
    /\ txn_state[u] = "SHRINKING"

\* C26: LockShared by a shrinking transaction and LockShared by a
\* READ_UNCOMMITTED transaction set the transaction to ABORTED and raise
\* LOCK_ON_SHRINKING, respectively LOCKSHARED_ON_READ_UNCOMMITTED, and leave
\* the lock table (request queues, reader counts) and the lock sets as they
\* were; LockExclusive by a shrinking transaction raises LOCK_ON_SHRINKING
\* in the same way.
C26_RefusedLockLeavesQueue ==
  [][\A t \in Txns, r \in Rids :
       LET refused(reason) ==
             /\ txn_state'[t] = "ABORTED"
             /\ call'[t] = [op |-> "thrown", rid |-> r]
             /\ abort_reason'[t] = reason
             /\ lock_table' = lock_table
             /\ shared_lock_set' = shared_lock_set
             /\ exclusive_lock_set' = exclusive_lock_set
       IN /\ (LockShared(t, r) /\ txn_state[t] = "SHRINKING") =>
               refused("LOCK_ON_SHRINKING")
          /\ (LockShared(t, r) /\ txn_state[t] # "SHRINKING"
                               /\ isolation[t] = "READ_UNCOMMITTED") =>
               refused("LOCKSHARED_ON_READ_UNCOMMITTED")
          /\ (LockExclusive(t, r) /\ txn_state[t] = "SHRINKING") =>
               refused("LOCK_ON_SHRINKING")]_vars

\* One transaction was refused a shared lock because it is READ_UNCOMMITTED,
\* the other was refused a lock because it had started to shrink.
C26_Witness ==
  \E t, u \in Txns :
    /\ call[t].op = "thrown"
    /\ abort_reason[t] = "LOCKSHARED_ON_READ_UNCOMMITTED"
    /\ txn_state[t] = "ABORTED"
    /\ call[u].op = "thrown"
    /\ abort_reason[u] = "LOCK_ON_SHRINKING"
    /\ txn_state[u] = "ABORTED"
    /\ has_unlocked[u]

(***************************************************************************)
(* Delete and update executors.                                            *)
(***************************************************************************)
\* The step changes the heap tuple of rid r or the index entries of r.
TupleChanged(r) ==
  \/ heap'[r] # heap[r]
  \/ {e \in index_entries' : e[2] = r} # {e \in index_entries : e[2] = r}

\* The step is taken by the executor of transaction t.
DmlActor(t) == dml'[t] # dml[t]

\* C27: Delete and Update change a heap tuple and its index entries only in
\* a step of a transaction whose lock call has returned and that holds the
\* exclusive lock on the rid; the lock call upgrades the request of a
\* transaction that holds the shared lock and appends an exclusive request
\* otherwise; a transaction whose lock call raised leaves Next without
\* changing the tuple or the index.
C27_WritesUnderExclusiveLock ==
  /\ [][\A r \in Rids :
          TupleChanged(r) =>
            \E t \in Txns :
              /\ DmlActor(t)
              /\ dml[t].pc = "locking"
              /\ dml[t].rid = r
              /\ call[t].op = "none"
              /\ r \in exclusive_lock_set[t]
              /\ lock_table[r].writer_enter
              /\ \A u \in Txns \ {t} : r \notin exclusive_lock_set[u]]_vars
  /\ [][\A t \in Txns :
          (DmlActor(t) /\ dml[t].pc = "idle") =>
            LET r == dml'[t].rid
                q == lock_table[r].request_queue
                p == lock_table'[r].request_queue
            IN IF r \in shared_lock_set[t]
               THEN /\ r \notin shared_lock_set'[t]
                    /\ Len(p) = Len(q)
                    /\ p[GetRequest(p, t)].lock_mode = "EXCLUSIVE"
               ELSE /\ shared_lock_set' = shared_lock_set
                    /\ \/ call'[t].op = "thrown" /\ p = q
                       \/ r \in exclusive_lock_set[t] /\ p = q
                       \/ /\ Len(p) = Len(q) + 1
                          /\ p[Len(p)].txn_id = t
                          /\ p[Len(p)].lock_mode = "EXCLUSIVE"]_vars
  /\ [][\A t \in Txns :
          (DmlActor(t) /\ call[t].op = "thrown") =>
            (heap' = heap /\ index_entries' = index_entries)]_vars

\* A transaction has deleted a tuple and its index entry under its granted
\* exclusive lock, and the other transaction, whose lock call on the same
\* rid raised, has left Next.
C27_Witness ==
  \E t, u \in Txns, r \in Rids :
    /\ t # u
    /\ heap[r].deleted
    /\ {e \in index_entries : e[2] = r} = {}
    /\ r \in exclusive_lock_set[t]
    /\ dml[t].pc = "idle"
    /\ lock_table[r].request_queue[GetRequest(lock_table[r].request_queue, t)].granted
    /\ call[u] = [op |-> "thrown", rid |-> r]
    /\ dml[u].pc = "idle"

(***************************************************************************)
(* Aggregation properties.                                                 *)
(***************************************************************************)
\* C28: after Init() has been called again on an executor whose data did
\* not change, the drain yields the sequence of tuples of the first drain.
C28_ReInitRepeatsOutput ==
  (/\ aggregation_log.inits >= 2
   /\ aggregation_log.done)
    => aggregation_log.out = aggregation_log.first

\* The positions of the child's tuples of a group, and the group's aggregates
\* computed from them.
RowsOf(child, key) == {i \in 1..Len(child) : child[i][1] = key}

RECURSIVE SumOf(_, _)
SumOf(child, rows) ==
  IF rows = {} THEN 0
  ELSE child[SetMin(rows)][2] + SumOf(child, rows \ {SetMin(rows)})

GroupAggregates(child, key) ==
  [group |-> key,
   count |-> Cardinality(RowsOf(child, key)),
   sum |-> SumOf(child, RowsOf(child, key)),
   min |-> SetMin({child[i][2] : i \in RowsOf(child, key)}),
   max |-> SetMax({child[i][2] : i \in RowsOf(child, key)})]

\* C29: a drain after Init consists of exactly one tuple per group-by key
\* of the child's output whose aggregates pass HAVING, and the tuple carries
\* the count, sum, min and max over exactly the child's tuples of the group.
C29_OneTuplePerGroup ==
  aggregation_log.done =>
    LET child == aggregation.child
        out == aggregation_log.out
        passing == {key \in {child[i][1] : i \in 1..Len(child)} :
                      Having(aggregation.having, GroupAggregates(child, key))}
    IN /\ {out[i] : i \in 1..Len(out)} = {GroupAggregates(child, key) : key \in passing}
       /\ Len(out) = Cardinality(passing)

(***************************************************************************)
(* Catalog properties.                                                     *)
(***************************************************************************)
\* C30: for every entry CreateTable has returned, GetTable by its name and
\* GetTable by its oid return that entry, with the name, oid and schema of
\* the creation; GetTable of a name that was never created raises
\* out-of-range; CreateIndex, GetIndex(oid) and GetIndex(index_name,
\* table_name) make the same round trip.
C30_CatalogRoundTrip ==
  /\ \A e \in catalog_log.tables :
       /\ CatalogGetTable(catalog, e.name) = [ok |-> TRUE, entry |-> e]
       /\ CatalogGetTableByOid(catalog, e.oid) = [ok |-> TRUE, entry |-> e]
  /\ \A e \in catalog_log.indexes :
       /\ CatalogGetIndex(catalog, e.name, e.table_name) = [ok |-> TRUE, entry |-> e]
       /\ CatalogGetIndexByOid(catalog, e.index_oid) = [ok |-> TRUE, entry |-> e]
  /\ catalog_op.op = "GetTable" =>
       IF \E e \in catalog_log.tables : e.name = catalog_op.table_name
       THEN catalog_op.ok /\ catalog_op.table \in catalog_log.tables
                         /\ catalog_op.table.name = catalog_op.table_name
       ELSE ~catalog_op.ok
  /\ catalog_op.op = "GetTableByOid" =>
       IF \E e \in catalog_log.tables : e.oid = catalog_op.oid
       THEN catalog_op.ok /\ catalog_op.table \in catalog_log.tables
                         /\ catalog_op.table.oid = catalog_op.oid
       ELSE ~catalog_op.ok
  /\ catalog_op.op = "GetIndex" =>
       IF \E e \in catalog_log.indexes :
            e.name = catalog_op.name /\ e.table_name = catalog_op.table_name
       THEN catalog_op.ok /\ catalog_op.index_info \in catalog_log.indexes
                         /\ catalog_op.index_info.name = catalog_op.name
                         /\ catalog_op.index_info.table_name = catalog_op.table_name
       ELSE ~catalog_op.ok
  /\ catalog_op.op = "GetIndexByOid" =>
       IF \E e \in catalog_log.indexes : e.index_oid = catalog_op.oid
       THEN catalog_op.ok /\ catalog_op.index_info \in catalog_log.indexes
                         /\ catalog_op.index_info.index_oid = catalog_op.oid
       ELSE ~catalog_op.ok

\* Two tables and an index on each exist, and GetTable by name has just
\* returned the entry of the table that was created first.
C30_Witness ==
  /\ Cardinality(catalog_log.tables) = 2
  /\ Cardinality(catalog_log.indexes) >= 2
  /\ catalog_op.op = "GetTable"
  /\ catalog_op.ok
  /\ catalog_op.table.oid = 0
  /\ catalog_op.table.schema = MaxSchema

(***************************************************************************)
(* Deadlock detector properties.                                           *)
(***************************************************************************)
\* The wait-for graph a detector pass builds from the lock table of the state.
WaitsForGraph == BuildGraph(SortedSeq(AllRids), 1, EmptyGraph).waits_for

\* On some rid t1 has an ungranted request and t2 a granted request ahead of it.
WaitsBehind(t1, t2) ==
  \E r \in AllRids :
    LET q == lock_table[r].request_queue IN
    \E i, j \in 1..Len(q) :
      /\ i < j
      /\ q[i].txn_id = t2 /\ q[i].granted
      /\ q[j].txn_id = t1 /\ ~q[j].granted

\* C31: the wait-for graph of a detector pass has the edge t1 -> t2 exactly
\* when on some rid t1 has an ungranted request behind a granted request of
\* t2; a granted request gives its transaction no outgoing edge.
C31_EdgesAreWaits ==
  \A t1, t2 \in AllTxns : t2 \in WaitsForGraph[t1] <=> WaitsBehind(t1, t2)

\* The transactions of S wait for one another in a ring of the graph.
IsCycle(waits_for, S) ==
  \E p \in Perms(S) :
    \A i \in 1..Cardinality(S) : p[(i % Cardinality(S)) + 1] \in waits_for[p[i]]

\* C32: a transaction that a detector pass aborts is on a cycle of the pass's
\* wait-for graph and has the largest id of that cycle's members.
C32_VictimIsYoungestInCycle ==
  [][RunCycleDetection =>
       \A v \in AllTxns :
         (txn_state'[v] = "ABORTED" /\ txn_state[v] # "ABORTED") =>
           \E S \in SUBSET AllTxns :
             /\ v \in S
             /\ IsCycle(WaitsForGraph, S)
             /\ v = SetMax(S)]_vars

\* C33: a transaction that a detector pass aborts while it sleeps in a lock
\* call is woken by that pass (its condition variable is notified), and the
\* call of an aborted sleeper ends only by raising the DEADLOCK abort, without
\* a lock being granted.
C33_AbortedWaiterRaises ==
  /\ [][RunCycleDetection =>
          \A v \in AllTxns :
            (txn_state'[v] = "ABORTED" /\ txn_state[v] # "ABORTED" /\ IsWaiting(v)) =>
              woken'[v]]_vars
  /\ [][\A v \in AllTxns :
          (txn_state[v] = "ABORTED" /\ IsWaiting(v)) =>
            /\ call'[v].op \in {call[v].op, "thrown"}
            /\ call'[v].op = "thrown" => abort_reason'[v] = "DEADLOCK"
            /\ shared_lock_set'[v] \subseteq shared_lock_set[v]
            /\ exclusive_lock_set'[v] \subseteq exclusive_lock_set[v]]_vars

(***************************************************************************)
(* Sequential scan under the isolation levels.                             *)
(***************************************************************************)
\* The step in which the scan of t reads the tuple under its iterator and leaves
\* the pass of the loop (lines 83-99).
ScanReads(t) == scan[t].pc = "locked" /\ call[t].op = "none" /\ scan'[t].pc = "idle"

C35_RemovedPagesDeleted ==
  [][(tree_op'.op = "Remove" /\ ~tree'.crashed) =>
       \A p \in TreePages \ TreePages' : p \notin DOMAIN bpm'.page_table]_vars

(***************************************************************************)
(* C36: a Remove and a forward iteration never wait for one another's      *)
(* page latches: when the Remove of the second thread waits for the latch  *)
(* of a sibling leaf that the iterator holds, operator++ of the iterator   *)
(* does not need a latch that this Remove holds.                           *)
(***************************************************************************)
RemoveWaitsForIterator ==
  /\ tree.reader.pc = "sibling"
  /\ TreeRemove(RemoverStart, tree.reader.key).blocked

IteratorWaitsForRemove ==
  /\ tree.iter.open
  /\ ~isEnd(tree.iter)
  /\ IteratorNext(StartCall, tree.iter).st.blocked

C36_NoLatchCycle == ~(RemoveWaitsForIterator /\ IteratorWaitsForRemove)

(***************************************************************************)
(* C37: every request in a rid's queue belongs to a transaction that holds *)
(* that lock (the request is granted and the rid is in one of its lock     *)
(* sets) or is blocked in a lock call on that rid; and a transaction whose *)
(* lock call raised DEADLOCK or UPGRADE_CONFLICT and whose lock sets are   *)
(* empty again has no request in any queue.                                *)
(***************************************************************************)
RequestIsOwned(r, request) ==
  LET t == request.txn_id IN
  \/ request.granted /\ r \in shared_lock_set[t] \cup exclusive_lock_set[t]
  \/ IsWaiting(t) /\ call[t].rid = r

C37_RequestsAreOwned ==
  /\ \A r \in AllRids :
       \A i \in 1..Len(lock_table[r].request_queue) :
         RequestIsOwned(r, lock_table[r].request_queue[i])
  /\ \A t \in AllTxns :
       (/\ call[t].op = "thrown"
        /\ abort_reason[t] \in {"DEADLOCK", "UPGRADE_CONFLICT"}
        /\ shared_lock_set[t] \cup exclusive_lock_set[t] = {})
       => \A r \in AllRids : GetRequest(lock_table[r].request_queue, t) = 0

(***************************************************************************)
(* C38: every frame of the buffer pool is in exactly one of three places:  *)
(* on the free list and holding no page, in the replacer and holding a     *)
(* resident page with pin_count = 0, or holding a resident page with       *)
(* pin_count > 0; the replacer's Size is the number of resident pages with *)
(* pin_count = 0.                                                          *)
(***************************************************************************)
OnFreeList(frame_id) == \E i \in 1..Len(bpm.free_list) : bpm.free_list[i] = frame_id

InReplacer(frame_id) ==
  \E i \in 1..Len(bpm.replacer.list) : bpm.replacer.list[i] = frame_id

HoldsPage(frame_id) ==
  \E page_id \in DOMAIN bpm.page_table : bpm.page_table[page_id] = frame_id

C38_FramePartition ==
  /\ \A frame_id \in Frames :
       \/ /\ OnFreeList(frame_id)
          /\ ~InReplacer(frame_id)
          /\ ~HoldsPage(frame_id)
       \/ /\ ~OnFreeList(frame_id)
          /\ InReplacer(frame_id)
          /\ HoldsPage(frame_id)
          /\ bpm.pages[frame_id].pin_count = 0
       \/ /\ ~OnFreeList(frame_id)
          /\ ~InReplacer(frame_id)
          /\ HoldsPage(frame_id)
          /\ bpm.pages[frame_id].pin_count > 0
  /\ Size(bpm.replacer)
       = Cardinality({page_id \in DOMAIN bpm.page_table :
                        FrameOf(bpm, page_id).pin_count = 0})

(***************************************************************************)
(* Clients of the buffer pool that follow a write to a page by             *)
(* UnpinPage(page_id, true).  A page has a pending write when its frame    *)
(* holds bytes that are not on disk and its dirty flag is not set: the     *)
(* last pin of such a page is released with is_dirty = true.               *)
(***************************************************************************)
PendingWrite(page_id) ==
  /\ IsResident(bpm, page_id)
  /\ ~FrameOf(bpm, page_id).is_dirty
  /\ FrameOf(bpm, page_id).data # ReadPage(bpm, page_id)

ClientFetchPage(page_id) ==
  /\ IsResident(bpm, page_id) => FrameOf(bpm, page_id).pin_count < MaxClientPin
  /\ FetchPage(page_id)

ClientUnpinPage(page_id, is_dirty) ==
  /\ (PendingWrite(page_id) /\ FrameOf(bpm, page_id).pin_count = 1) => is_dirty
  /\ UnpinPage(page_id, is_dirty)

NextClients ==
  \/ \E page_id \in PageIds : ClientFetchPage(page_id)
  \/ NewPage
  \/ \E page_id \in PageIds, is_dirty \in BOOLEAN : ClientUnpinPage(page_id, is_dirty)
  \/ \E page_id \in PageIds : FlushPage(page_id)
  \/ \E page_id \in PageIds : DeletePage(page_id)
  \/ FlushAllPages
  \/ \E page_id \in PageIds, data \in 1..MaxWritten : WriteData(page_id, data)

SpecClients == InitDefault /\ [][NextClients]_vars

\* The bytes of the page as the buffer pool keeps them: in its frame while it is
\* resident, on disk otherwise.
StoredBytes(b, page_id) ==
  IF IsResident(b, page_id) THEN FrameOf(b, page_id).data ELSE ReadPage(b, page_id)

(***************************************************************************)
(* C39: with more pages than frames and clients that unpin what they wrote *)
(* with is_dirty = true, no update is lost: every call other than a write  *)
(* to the page or DeletePage of the page leaves the page's stored bytes as *)
(* they were, through eviction, write-back and re-fetch, and a FetchPage   *)
(* that returns the page returns it with those bytes, which are therefore  *)
(* the bytes last written to it.                                           *)
(***************************************************************************)
C39_NoLostUpdate ==
  [][\A page_id \in PageIds :
       /\ (last_op'.op = "FetchPage" /\ last_op'.page_id = page_id /\ last_op'.ret)
          => /\ IsResident(bpm', page_id)
             /\ FrameOf(bpm', page_id).data = StoredBytes(bpm, page_id)
       /\ ~(last_op'.op \in {"WriteData", "DeletePage"} /\ last_op'.page_id = page_id)
          => StoredBytes(bpm', page_id) = StoredBytes(bpm, page_id)]_vars

\* A page that was written, evicted and fetched again comes back with the bytes written.
C39_Witness ==
  /\ last_op.op = "FetchPage"
  /\ last_op.ret
  /\ ~last_op.was_resident
  /\ bpm.next_page_id > PoolSize
  /\ FrameOf(bpm, last_op.page_id).data = Bytes(MaxWritten)

(***************************************************************************)
(* C40: no call of the tree gives a frame to the free list (DeletePage in  *)
(* Coalesce) while it holds a latch on that frame, which it unlatches      *)
(* later, and no call unpins a page on which it holds no pin: every        *)
(* UnpinPage of the call returns true.                                     *)
(***************************************************************************)
C40_NoFrameFreedInUse ==
  /\ tree_op.freed_latched = {}
  /\ tree_op.unpin_failed = {}

====
